---- MODULE Spec2Model ----
(***************************************************************************)
(* A model of the annotation editor of src/src/app.component.ts (the       *)
(* second, later AppComponent of the file, lines 1097-2539).               *)
(*                                                                         *)
(* Units.  Document-space lengths (x, y, width, height, path points) are   *)
(* held in tenths of a point, so that the line height 1.2 * size of        *)
(* measureText is an integer.  Pointer positions are held in tenths of a   *)
(* CSS pixel.  The zoom factor `scale` is held in quarters (6 = 1.5), the  *)
(* step of zoomIn / zoomOut.  Indices keep the source's 0-based values,    *)
(* with -1 for "none"; sequences are 1-based, so list[i + 1] reads the     *)
(* source's list[i].                                                       *)
(***************************************************************************)
EXTENDS Integers, Sequences, FiniteSets, TLC

VARIABLES
    \* PDF state
    pdfDoc,                  \* the rasterizer's document handle
    pdfLibDoc,               \* the mutator's document handle (mutated in place)
    currentPageNum,
    totalPages,
    originalFileName,
    scale,
    \* UI state
    activeTab,
    activeTool,
    isSaving,
    pageOrder,
    \* editing state
    annotations,
    isDrawing,
    currentDrawingPath,
    isEditingText,
    textEditingState,        \* <<>> is null, <<state>> is a state
    textSettings,
    selectedAnnotationIndex,
    dragMode,
    dragStartPos,
    dragStartAnn,
    \* history
    undoStack,
    redoStack,
    \* rasterization
    pdfRenderTask,           \* 0 is null, otherwise a task id
    thumbnailRenderTasks,    \* canvas -> task id, 0 for no entry
    tasks,                   \* task id -> [surface, status]; request r starts task r
    reqs,                    \* render request -> [pc, surface]
    painted,                 \* the requests that have called drawAnnotations
    \* history variables of the properties
    gLog,                    \* models recorded around the commits of a run
    gPhase,                  \* "void", "mut", "undo", "redo"
    gUndos,
    gRedos,
    download,                \* <<>>, or <<file>>: the file link.click() hands over
    running                  \* the asynchronous handler runs that have not returned

docVars    == <<pdfDoc, pdfLibDoc, currentPageNum, totalPages, originalFileName,
                isSaving, pageOrder>>
uiVars     == <<scale, activeTab, activeTool>>
gestVars   == <<isDrawing, currentDrawingPath, dragMode, dragStartPos, dragStartAnn>>
textVars   == <<isEditingText, textEditingState, textSettings>>
histVars   == <<undoStack, redoStack>>
renderVars == <<pdfRenderTask, thumbnailRenderTasks, tasks, reqs, painted>>
ghostVars  == <<gLog, gPhase, gUndos, gRedos, download, running>>
vars == <<docVars, uiVars, gestVars, textVars, histVars, renderVars,
          ghostVars, annotations, selectedAnnotationIndex>>

----------------------------------------------------------------------------
\* Bounds of the model.
MaxHist == 2         \* entries of the undo stack in an editing session
MaxPages == 2        \* pages of a document in a document session
MaxDocHist == 1      \* entries of the undo stack in a document session
MaxOrderPages == 4   \* pages of a document in a reordering session
MaxReqs == 3         \* render requests of a rasterization session
MaxPath == 2         \* points of an in-progress freehand path
MaxSelHist == 2      \* entries of the undo stack in a selecting session
MaxExportAnns == 2   \* commits before an export

\* Program constants.
DefaultScale == 6            \* scale = signal(1.5), in quarters
DefaultTextSize == 16
NewTextBoxWidth == 150
MaxImagePoints == 2000       \* MAX_WIDTH_POINTS = MAX_HEIGHT_POINTS = 200 points
HandlePixels == 10           \* handleSize = 10 / scale
MinResizeWidth == 100        \* newWidth > 10 points

\* Every page of every document is 200 x 200 points.
PageSize == [width |-> 2000, height |-> 2000]

----------------------------------------------------------------------------
\* Helpers over sequences, with the semantics of the JavaScript they model.

\* Array.prototype.indexOf: 0-based, -1 when absent.
IndexOf(s, v) ==
    IF \E i \in 1..Len(s) : s[i] = v
    THEN (CHOOSE i \in 1..Len(s) : s[i] = v /\ \A j \in 1..(i - 1) : s[j] # v) - 1
    ELSE -1

Min(a, b) == IF a < b THEN a ELSE b
Max(a, b) == IF a > b THEN a ELSE b

\* splice(start, 1) on a copy: the element removed (a sequence of 0 or 1) and the rest.
SpliceOut(s, start) ==
    LET st == Min(start, Len(s)) IN
    IF st < Len(s)
    THEN [removed |-> <<s[st + 1]>>,
          rest |-> SubSeq(s, 1, st) \o SubSeq(s, st + 2, Len(s))]
    ELSE [removed |-> <<>>, rest |-> s]

\* splice(start, 0, item) that inserts one place further.
SpliceInAfter(s, start, item) ==
    LET st == Min(start + 1, Len(s)) IN
    SubSeq(s, 1, st) \o <<item>> \o SubSeq(s, st + 1, Len(s))

\* splice(start, 0, item): the start is clamped to the length.
SpliceIn(s, start, item) ==
    LET st == Min(start, Len(s)) IN
    SubSeq(s, 1, st) \o <<item>> \o SubSeq(s, st + 1, Len(s))

\* JSON.parse(JSON.stringify(model)): every page list and every annotation is
\* rebuilt from its serialized fields.  All values an annotation holds here are
\* finite numbers, strings, booleans, arrays and plain objects, which the round
\* trip keeps; the result shares no object with `model`, so a later assignment
\* into the live model does not reach a snapshot.
JsonClone(model) ==
    [p \in DOMAIN model |->
        [i \in DOMAIN model[p] |->
            [f \in DOMAIN model[p][i] |-> model[p][i][f]]]]

----------------------------------------------------------------------------
\* Text, held as a sequence of one-character strings.

IsSpace(c) == c \in {" ", "\n", "\t"}

RECURSIVE TrimStart(_)
TrimStart(t) ==
    IF t # <<>> /\ IsSpace(Head(t)) THEN TrimStart(Tail(t)) ELSE t

RECURSIVE TrimEnd(_)
TrimEnd(t) ==
    IF t # <<>> /\ IsSpace(t[Len(t)]) THEN TrimEnd(SubSeq(t, 1, Len(t) - 1)) ELSE t

\* String.prototype.trim
Trim(t) == TrimEnd(TrimStart(t))

\* text.split('\n'): the lengths of the lines, in order.
RECURSIVE LineLengths(_, _)
LineLengths(t, cur) ==
    IF t = <<>> THEN <<cur>>
    ELSE IF Head(t) = "\n" THEN <<cur>> \o LineLengths(Tail(t), 0)
    ELSE LineLengths(Tail(t), cur + 1)

RECURSIVE MaxOf(_)
MaxOf(s) == IF Len(s) = 1 THEN s[1] ELSE Max(s[1], MaxOf(Tail(s)))

\* measureText followed by the division by totalScale of its callers: the
\* canvas measures at scale * pixelRatio and the callers divide by the same
\* factor, so the result is in document space.  The canvas metric is taken as
\* half an em per character; the line height is 1.2 * size.
measureText(text, settings) ==
    LET lines == LineLengths(text, 0) IN
    [width  |-> MaxOf(lines) * settings.size * 5,
     height |-> Len(lines) * settings.size * 12]

----------------------------------------------------------------------------
\* Coordinates.

\* pos.x / this.scale(), pos.y / this.scale(): pixels (tenths) to document space.
ToDoc(v) == (v * 4) \div scale

\* The pointer position left in pixels.
posInPixels(pos) == [x |-> pos.x, y |-> pos.y]

posUnscaledOf(pos) == [x |-> ToDoc(pos.x), y |-> ToDoc(pos.y)]

\* annToEdit.x * this.scale()
ToPixels(v) == (v * scale) \div 4

----------------------------------------------------------------------------
\* The current page and its annotation list.

\* this.pageOrder().indexOf(this.currentPageNum())
pageIndexNow == IndexOf(pageOrder, currentPageNum)

InRect(p, x, y, w, h) == p.x >= x /\ p.x <= x + w /\ p.y >= y /\ p.y <= y + h

\* The resize handle of an image: a square of side handleSize = 10 / scale
\* centred on the bottom-right corner.  p - corner is compared with
\* handleSize / 2 after multiplying both sides by 2 * scale.
InHandle(p, ann) ==
    LET dx == p.x - (ann.x + ann.width)
        dy == p.y - (ann.y + ann.height)
        half == HandlePixels * 10 * 4        \* handleSize / 2, times 2 * scale
    IN  /\ 2 * scale * dx >= -half /\ 2 * scale * dx <= half
        /\ 2 * scale * dy >= -half /\ 2 * scale * dy <= half

\* The loop body that tests the body before the handle.
HitPartBodyFirst(p, ann) ==
    IF ann.type \in {"text", "image"}
    THEN IF InRect(p, ann.x, ann.y, ann.width, ann.height) THEN "move"
         ELSE IF ann.type = "image" /\ InHandle(p, ann) THEN "resize"
         ELSE "none"
    ELSE "none"

\* The body of the loop of onMouseDown for one annotation.
HitPart(p, ann) ==
    IF ann.type \in {"text", "image"}
    THEN IF ann.type = "image" /\ InHandle(p, ann) THEN "resize"
         ELSE IF InRect(p, ann.x, ann.y, ann.width, ann.height) THEN "move"
         ELSE "none"
    ELSE "none"

\* for (let i = pageAnns.length - 1; i >= 0; i--) ... break: the topmost hit.
TopHit(pageAnns, p) ==
    LET hits == {i \in 1..Len(pageAnns) : HitPart(p, pageAnns[i]) # "none"} IN
    IF hits = {} THEN -1
    ELSE (CHOOSE i \in hits : \A j \in hits : j <= i) - 1

\* The loop of onDblClick: the topmost text annotation whose body holds p.
TopTextHit(pageAnns, p) ==
    LET hits == {i \in 1..Len(pageAnns) :
                    /\ pageAnns[i].type = "text"
                    /\ InRect(p, pageAnns[i].x, pageAnns[i].y,
                              pageAnns[i].width, pageAnns[i].height)} IN
    IF hits = {} THEN -1
    ELSE (CHOOSE i \in hits : \A j \in hits : j <= i) - 1

settingsOf(ann) == [font |-> ann.font, size |-> ann.size, color |-> ann.color,
                    bold |-> ann.bold]

----------------------------------------------------------------------------
\* History.

\* The three assignments of addAnnotation: the snapshot is taken first, then
\* the list of the current page is replaced.
\* addAnnotation with the snapshot taken after the assignment.
addAnnotationLateSnapshot(annotation) ==
    /\ annotations' =
         IF pageIndexNow > -1
         THEN [annotations EXCEPT ![pageIndexNow + 1] = Append(@, annotation)]
         ELSE annotations
    /\ undoStack' = Append(undoStack, JsonClone(annotations'))
    /\ redoStack' = <<>>

\* addAnnotation that pushes onto the list it finds: the lists that
\* Array(n).fill([]) made are one list until each is replaced, so an
\* annotation pushed onto an untouched list shows on every untouched page.
addAnnotationSharedList(annotation) ==
    /\ undoStack' = Append(undoStack, JsonClone(annotations))
    /\ redoStack' = <<>>
    /\ annotations' =
         IF pageIndexNow > -1
         THEN [p \in 1..Len(annotations) |->
                 IF p = pageIndexNow + 1
                    \/ (annotations[pageIndexNow + 1] = <<>>
                        /\ annotations[p] = <<>>)
                 THEN Append(annotations[p], annotation)
                 ELSE annotations[p]]
         ELSE annotations

addAnnotation(annotation) ==
    /\ undoStack' = Append(undoStack, JsonClone(annotations))
    /\ redoStack' = <<>>
    /\ annotations' =
         IF pageIndexNow > -1
         THEN [annotations EXCEPT ![pageIndexNow + 1] = Append(@, annotation)]
         ELSE annotations

undo ==
    /\ undoStack # <<>>                                  \* canUndo
    /\ LET lastState == undoStack[Len(undoStack)] IN
        /\ redoStack' = Append(redoStack, JsonClone(annotations))
        /\ annotations' = lastState
        /\ undoStack' = SubSeq(undoStack, 1, Len(undoStack) - 1)
        /\ selectedAnnotationIndex' = -1
    /\ UNCHANGED <<docVars, uiVars, gestVars, textVars, renderVars>>

\* redo that moves the snapshot between the stacks and leaves the model.
redoKeepsModel ==
    /\ redoStack # <<>>
    /\ undoStack' = Append(undoStack, JsonClone(annotations))
    /\ annotations' = annotations
    /\ redoStack' = SubSeq(redoStack, 1, Len(redoStack) - 1)
    /\ selectedAnnotationIndex' = -1
    /\ UNCHANGED <<docVars, uiVars, gestVars, textVars, renderVars>>

redo ==
    /\ redoStack # <<>>                                  \* canRedo
    /\ LET nextState == redoStack[Len(redoStack)] IN
        /\ undoStack' = Append(undoStack, JsonClone(annotations))
        /\ annotations' = nextState
        /\ redoStack' = SubSeq(redoStack, 1, Len(redoStack) - 1)
        /\ selectedAnnotationIndex' = -1
    /\ UNCHANGED <<docVars, uiVars, gestVars, textVars, renderVars>>

----------------------------------------------------------------------------
\* Navigation and tools.

\* goToPage that changes the page and keeps the selection.
goToPageKeepsSelection(num) ==
    /\ num \in 1..Len(pageOrder)
    /\ currentPageNum' = pageOrder[num]
    /\ selectedAnnotationIndex' = selectedAnnotationIndex
    /\ UNCHANGED <<pdfDoc, pdfLibDoc, totalPages, originalFileName, isSaving,
                   pageOrder, uiVars, gestVars, textVars, histVars, renderVars, annotations>>

goToPage(num) ==
    /\ num \in 1..Len(pageOrder)
    /\ currentPageNum' = pageOrder[num]
    /\ selectedAnnotationIndex' = -1
    /\ UNCHANGED <<pdfDoc, pdfLibDoc, totalPages, originalFileName, isSaving,
                   pageOrder, uiVars, gestVars, textVars, histVars, renderVars, annotations>>

\* onPageInput: a number typed into the page box, accepted within 1..totalPages.
onPageInput(pageNum) ==
    /\ pageNum >= 1 /\ pageNum <= totalPages
    /\ goToPage(pageNum)

selectTab(tab) ==
    /\ activeTab' = tab
    /\ UNCHANGED <<docVars, scale, activeTool, gestVars, textVars, histVars,
                   renderVars, annotations, selectedAnnotationIndex>>

selectTool(tool) ==
    /\ activeTool' = tool
    /\ selectedAnnotationIndex' = -1
    /\ UNCHANGED <<docVars, scale, activeTab, gestVars, textVars, histVars,
                   renderVars, annotations>>

----------------------------------------------------------------------------
\* Zoom.  scale is held in quarters, so a step of 0.25 is 1, the upper limit
\* 5 is 20 and the lower limit 0.25 is 1.

MaxScale == 20
MinScale == 1
FitPadding == 320            \* const padding = 32, in tenths of a pixel

\* A scaling of the stored geometry by to / from.
Rescaled(ann, from, to) ==
    IF ann.type = "draw"
    THEN [ann EXCEPT !.path = [k \in 1..Len(ann.path) |->
                                  [x |-> (ann.path[k].x * to) \div from,
                                   y |-> (ann.path[k].y * to) \div from]]]
    ELSE [ann EXCEPT !.x = (@ * to) \div from, !.y = (@ * to) \div from,
                     !.width = (@ * to) \div from,
                     !.height = (@ * to) \div from]

\* zoomIn that keeps the annotations where they are on the screen.
zoomInRescaling ==
    /\ scale' = Min(MaxScale, scale + 1)
    /\ annotations' = [p \in DOMAIN annotations |->
                          [i \in DOMAIN annotations[p] |->
                              Rescaled(annotations[p][i], scale', scale)]]
    /\ UNCHANGED <<docVars, activeTab, activeTool, gestVars, textVars,
                   histVars, renderVars, selectedAnnotationIndex>>

zoomIn ==
    /\ scale' = Min(MaxScale, scale + 1)
    /\ UNCHANGED <<docVars, activeTab, activeTool, gestVars, textVars,
                   histVars, renderVars, annotations, selectedAnnotationIndex>>

zoomOut ==
    /\ scale' = Max(MinScale, scale - 1)
    /\ UNCHANGED <<docVars, activeTab, activeTool, gestVars, textVars,
                   histVars, renderVars, annotations, selectedAnnotationIndex>>

\* fitToPage in a viewer of container.clientWidth x container.clientHeight:
\* the smaller of the two ratios of the padded container to the page at
\* scale 1, here rounded down to a quarter.  ok is FALSE when pdf.getPage
\* rejects; without a document the handler returns at once.
fitToPage(container, ok) ==
    /\ scale' =
         IF pdfDoc.loaded /\ ok
         THEN Min(((container.clientWidth - FitPadding) * 4)
                     \div PageSize.width,
                  ((container.clientHeight - FitPadding) * 4)
                     \div PageSize.height)
         ELSE scale
    /\ UNCHANGED <<docVars, activeTab, activeTool, gestVars, textVars,
                   histVars, renderVars, annotations, selectedAnnotationIndex>>

----------------------------------------------------------------------------
\* Pointer gestures.  The page-number panel is closed in every session, so
\* the handlers are past their test of isPageNumberPanelOpen().

onMouseDown(pos) ==
    /\ ~isEditingText /\ activeTab = "edit"
    /\ pageIndexNow # -1
    /\ LET posUnscaled == posUnscaledOf(pos)
           pageAnns == annotations[pageIndexNow + 1]
           newSelection == TopHit(pageAnns, posUnscaled)
       IN
       IF newSelection > -1
       THEN LET ann == pageAnns[newSelection + 1] IN
            /\ dragMode' = HitPart(posUnscaled, ann)
            /\ activeTool' = "select"
            /\ selectedAnnotationIndex' = newSelection
            /\ dragStartPos' = posUnscaled
            /\ dragStartAnn' = [x |-> ann.x, y |-> ann.y,
                                width |-> ann.width, height |-> ann.height]
            /\ textSettings' = IF ann.type = "text" THEN settingsOf(ann)
                               ELSE textSettings
            /\ UNCHANGED <<isDrawing, currentDrawingPath, isEditingText,
                           textEditingState>>
       ELSE /\ selectedAnnotationIndex' = -1
            /\ IF activeTool = "draw"
               THEN /\ isDrawing' = TRUE
                    /\ currentDrawingPath' = <<posUnscaled>>
                    /\ UNCHANGED <<isEditingText, textEditingState>>
               ELSE IF activeTool = "text"
               THEN /\ isEditingText' = TRUE
                    /\ textEditingState' = <<[x |-> pos.x, y |-> pos.y,
                                              width |-> NewTextBoxWidth * 10,
                                              text |-> <<>>]>>
                    /\ UNCHANGED <<isDrawing, currentDrawingPath>>
               ELSE UNCHANGED <<isDrawing, currentDrawingPath, isEditingText,
                                textEditingState>>
            /\ UNCHANGED <<dragMode, dragStartPos, dragStartAnn, activeTool,
                           textSettings>>
    /\ UNCHANGED <<docVars, scale, activeTab, histVars, renderVars,
                   annotations>>

\* The drag whose resize sets the width and leaves the height.
DraggedAnnWidthOnly(ann, dx, dy) ==
    IF dragMode = "move" /\ ann.type \in {"image", "text"}
    THEN [ann EXCEPT !.x = dragStartAnn.x + dx, !.y = dragStartAnn.y + dy]
    ELSE IF dragMode = "resize" /\ ann.type = "image"
    THEN LET newWidth == dragStartAnn.width + dx IN
         IF newWidth > MinResizeWidth THEN [ann EXCEPT !.width = newWidth]
         ELSE ann
    ELSE ann

\* The drag whose resize applies every width.
DraggedAnnAnyWidth(ann, dx, dy) ==
    IF dragMode = "move" /\ ann.type \in {"image", "text"}
    THEN [ann EXCEPT !.x = dragStartAnn.x + dx, !.y = dragStartAnn.y + dy]
    ELSE IF dragMode = "resize" /\ ann.type = "image"
    THEN LET newWidth == dragStartAnn.width + dx IN
         [ann EXCEPT !.width = newWidth,
                     !.height = (newWidth * ann.originalAspectRatio.num)
                                   \div ann.originalAspectRatio.den]
    ELSE ann

\* The drag that adds the distance to where the annotation is now.
DraggedAnnFromCurrent(ann, dx, dy) ==
    IF dragMode = "move" /\ ann.type \in {"image", "text"}
    THEN [ann EXCEPT !.x = ann.x + dx, !.y = ann.y + dy]
    ELSE IF dragMode = "resize" /\ ann.type = "image"
    THEN LET newWidth == dragStartAnn.width + dx IN
         IF newWidth > MinResizeWidth
         THEN [ann EXCEPT !.width = newWidth,
                          !.height = (newWidth * ann.originalAspectRatio.num)
                                        \div ann.originalAspectRatio.den]
         ELSE ann
    ELSE ann

\* The annotation a pointer-move of a drag leaves at the selected index.
DraggedAnn(ann, dx, dy) ==
    IF dragMode = "move" /\ ann.type \in {"image", "text"}
    THEN [ann EXCEPT !.x = dragStartAnn.x + dx, !.y = dragStartAnn.y + dy]
    ELSE IF dragMode = "resize" /\ ann.type = "image"
    THEN LET newWidth == dragStartAnn.width + dx IN
         IF newWidth > MinResizeWidth
         THEN [ann EXCEPT !.width = newWidth,
                          !.height = (newWidth * ann.originalAspectRatio.num)
                                        \div ann.originalAspectRatio.den]
         ELSE ann
    ELSE ann

onMouseMove(pos) ==
    /\ ~(dragMode = "none" /\ ~isDrawing)
    /\ LET posUnscaled == posUnscaledOf(pos) IN
       IF dragMode # "none"
       THEN /\ selectedAnnotationIndex # -1 /\ pageIndexNow # -1
            /\ LET dx == posUnscaled.x - dragStartPos.x
                   dy == posUnscaled.y - dragStartPos.y
               IN annotations' =
                    [annotations EXCEPT
                       ![pageIndexNow + 1][selectedAnnotationIndex + 1] =
                           DraggedAnn(@, dx, dy)]
            /\ UNCHANGED currentDrawingPath
       ELSE /\ Len(currentDrawingPath) < MaxPath
            /\ currentDrawingPath' = Append(currentDrawingPath, posUnscaled)
            /\ UNCHANGED annotations
    /\ UNCHANGED <<docVars, uiVars, isDrawing, dragMode, dragStartPos,
                   dragStartAnn, textVars, histVars, renderVars,
                   selectedAnnotationIndex>>

\* const lineWidthInPoints = 2 / this.scale(), kept as a fraction.
DrawAnn(path) == [type |-> "draw", path |-> path, color |-> "red",
                  lineWidth |-> [num |-> 2 * 4, den |-> scale]]

\* onMouseUp that commits every path it finds.
onMouseUpAnyPath ==
    /\ dragMode' = "none"
    /\ IF isDrawing
       THEN /\ isDrawing' = FALSE
            /\ IF Len(currentDrawingPath) > 0
               THEN addAnnotation(DrawAnn(currentDrawingPath))
               ELSE UNCHANGED <<annotations, histVars>>
            /\ currentDrawingPath' = <<>>
       ELSE UNCHANGED <<isDrawing, currentDrawingPath, annotations, histVars>>
    /\ UNCHANGED <<docVars, uiVars, dragStartPos, dragStartAnn, textVars,
                   renderVars, selectedAnnotationIndex>>

onMouseUp ==
    /\ dragMode' = "none"
    /\ IF isDrawing
       THEN /\ isDrawing' = FALSE
            /\ IF Len(currentDrawingPath) > 1
               THEN addAnnotation(DrawAnn(currentDrawingPath))
               ELSE UNCHANGED <<annotations, histVars>>
            /\ currentDrawingPath' = <<>>
       ELSE UNCHANGED <<isDrawing, currentDrawingPath, annotations, histVars>>
    /\ UNCHANGED <<docVars, uiVars, dragStartPos, dragStartAnn, textVars,
                   renderVars, selectedAnnotationIndex>>

\* The loop of drawAnnotations over the list of the page shown: the indices
\* it paints.  The one that is selected while a text is edited is skipped.
drawAnnotations ==
    IF pageIndexNow = -1 THEN {}
    ELSE {i \in 0..(Len(annotations[pageIndexNow + 1]) - 1) :
             ~(isEditingText /\ selectedAnnotationIndex = i)}

onDblClick(pos) ==
    /\ activeTab = "edit"
    /\ pageIndexNow # -1
    /\ LET posUnscaled == posUnscaledOf(pos)
           pageAnns == annotations[pageIndexNow + 1]
           editIndex == TopTextHit(pageAnns, posUnscaled)
       IN
       IF editIndex > -1
       THEN LET annToEdit == pageAnns[editIndex + 1] IN
            /\ selectedAnnotationIndex' = editIndex
            /\ textSettings' = settingsOf(annToEdit)
            /\ isEditingText' = TRUE
            /\ textEditingState' = <<[x |-> ToPixels(annToEdit.x),
                                      y |-> ToPixels(annToEdit.y),
                                      width |-> ToPixels(annToEdit.width) + 200,
                                      text |-> annToEdit.text]>>
       ELSE UNCHANGED <<selectedAnnotationIndex, textVars>>
    /\ UNCHANGED <<docVars, uiVars, gestVars, histVars, renderVars,
                   annotations>>

----------------------------------------------------------------------------
\* Documents.  A page is [src, rot]: what it shows and its rotation (degrees
\* modulo 360).  Serialized bytes are the sequence of pages; a handle is
\* [loaded, pages], NullDoc for null.

NullDoc == [loaded |-> FALSE, pages |-> <<>>]
DocOf(pages) == [loaded |-> TRUE, pages |-> pages]

FreshPages(n) == [i \in 1..n |-> [src |-> i, rot |-> 0]]

\* The files a user can pick: well-formed ones of 1..MaxPages pages, and a
\* malformed one.
Files ==
    {[name |-> "a", valid |-> TRUE, pages |-> FreshPages(n)] : n \in 1..MaxPages}
    \cup {[name |-> "bad", valid |-> FALSE, pages |-> <<>>]}

\* The files a user can insert: one page, or malformed.
InsertFiles ==
    {[valid |-> TRUE, pages |-> <<[src |-> 0, rot |-> 0]>>],
     [valid |-> FALSE, pages |-> <<>>]}

\* RenderTask.cancel(): a running task stops; its promise rejects later.
Cancelled(ts, t) ==
    IF t # 0 /\ ts[t].status = "running"
    THEN [ts EXCEPT ![t].status = "cancelled"]
    ELSE ts

\* loadPdf(pdfBytes, isNewFile, pageToLoad), run to its end.  `ok` is whether
\* pdfjsLib.getDocument and PDFDocument.load both succeed on the bytes.
\* loadPdf that resets the model of a new file and keeps the history.
loadPdfKeepsHistory(pdfBytes, isNewFile, pageToLoad, ok) ==
    /\ tasks' = Cancelled(tasks, pdfRenderTask)
    /\ IF ok
       THEN LET numPages == Len(pdfBytes) IN
            /\ totalPages' = numPages
            /\ IF isNewFile
               THEN /\ annotations' = [i \in 1..numPages |-> <<>>]
                    /\ pageOrder' = [i \in 1..numPages |-> i]
                    /\ currentPageNum' = pageToLoad
                    /\ selectedAnnotationIndex' = -1
                    /\ UNCHANGED histVars
               ELSE /\ currentPageNum' = pageToLoad
                    /\ UNCHANGED <<annotations, pageOrder, histVars,
                                   selectedAnnotationIndex>>
            /\ pdfDoc' = DocOf(pdfBytes)
            /\ pdfLibDoc' = DocOf(pdfBytes)
       ELSE /\ pdfDoc' = NullDoc
            /\ pdfLibDoc' = NullDoc
            /\ totalPages' = 0
            /\ UNCHANGED <<annotations, pageOrder, currentPageNum, histVars,
                           selectedAnnotationIndex>>
    /\ isSaving' = FALSE

loadPdf(pdfBytes, isNewFile, pageToLoad, ok) ==
    /\ tasks' = Cancelled(tasks, pdfRenderTask)
    /\ IF ok
       THEN LET numPages == Len(pdfBytes) IN
            /\ totalPages' = numPages
            /\ IF isNewFile
               THEN /\ annotations' = [i \in 1..numPages |-> <<>>]
                    /\ pageOrder' = [i \in 1..numPages |-> i]
                    /\ currentPageNum' = pageToLoad
                    /\ undoStack' = <<>>
                    /\ redoStack' = <<>>
                    /\ selectedAnnotationIndex' = -1
               ELSE /\ currentPageNum' = pageToLoad
                    /\ UNCHANGED <<annotations, pageOrder, histVars,
                                   selectedAnnotationIndex>>
            /\ pdfDoc' = DocOf(pdfBytes)
            /\ pdfLibDoc' = DocOf(pdfBytes)
       ELSE /\ pdfDoc' = NullDoc
            /\ pdfLibDoc' = NullDoc
            /\ totalPages' = 0
            /\ UNCHANGED <<annotations, pageOrder, currentPageNum, histVars,
                           selectedAnnotationIndex>>
    /\ isSaving' = FALSE

onFileSelected(file) ==
    /\ originalFileName' = file.name
    /\ loadPdf(file.pages, TRUE, 1, file.valid)
    /\ UNCHANGED <<uiVars, gestVars, textVars, pdfRenderTask,
                   thumbnailRenderTasks, reqs, painted>>

----------------------------------------------------------------------------
\* Structural page operations.

\* confirmAndProceedWithOrganize: whether the action runs.  `answer` is what
\* the user replies to confirm(), which is asked only when some list is
\* non-empty.
HasAnnotations == \E p \in 1..Len(annotations) : Len(annotations[p]) > 0

\* An operation that runs whatever the answer.
ProceedsUnasked(answer) == TRUE

Proceeds(answer) == ~(HasAnnotations /\ ~answer)

\* What a structural operation leaves when it was declined or refused, or
\* returned at `if (!pdfLibDoc) return`.
NothingDone ==
    UNCHANGED <<docVars, histVars, annotations, selectedAnnotationIndex, tasks>>

\* The try / catch / finally of a structural operation.  `mutated` is the
\* mutator's document after the in-place calls, `pageToLoad` the page handed
\* to loadPdf.  fail = "mutator": a mutator call throws before it changes the
\* document; "save": pdfLibDoc.save() rejects; "load": loadPdf fails on the
\* saved bytes (it reports and swallows its own error); "none": all succeed.
Pipeline(mutated, pageToLoad, fail) ==
    CASE fail = "mutator" ->
            /\ isSaving' = FALSE
            /\ UNCHANGED <<pdfDoc, pdfLibDoc, currentPageNum, totalPages,
                           originalFileName, pageOrder, histVars, annotations,
                           selectedAnnotationIndex, tasks>>
      [] fail = "save" ->
            /\ pdfLibDoc' = DocOf(mutated)
            /\ isSaving' = FALSE
            /\ UNCHANGED <<pdfDoc, currentPageNum, totalPages, originalFileName,
                           pageOrder, histVars, annotations,
                           selectedAnnotationIndex, tasks>>
      [] OTHER ->
            /\ loadPdf(mutated, TRUE, pageToLoad, fail = "none")
            /\ UNCHANGED originalFileName

Fails == {"none", "mutator", "save", "load"}

Rotated(pages, i, degrees) ==
    [pages EXCEPT ![i].rot = (@ + degrees) % 360]

rotatePage(degrees, pageNumToRotate, answer, fail) ==
    /\ IF Proceeds(answer) /\ pdfLibDoc.loaded
       THEN IF pageNumToRotate \in 1..Len(pdfLibDoc.pages)
            THEN Pipeline(Rotated(pdfLibDoc.pages, pageNumToRotate, degrees),
                          currentPageNum, fail)
            ELSE Pipeline(pdfLibDoc.pages, currentPageNum, "mutator")
       ELSE NothingDone
    /\ UNCHANGED <<uiVars, gestVars, textVars, pdfRenderTask,
                   thumbnailRenderTasks, reqs, painted>>

\* deletePage without the refusal of the last page.
deletePageAnyCount(pageNumToDelete, answer, fail) ==
    /\ IF Proceeds(answer) /\ pdfLibDoc.loaded
       THEN IF pageNumToDelete \in 1..Len(pdfLibDoc.pages)
            THEN LET rest == SpliceOut(pdfLibDoc.pages, pageNumToDelete - 1).rest
                 IN Pipeline(rest, Min(pageNumToDelete, Len(rest)), fail)
            ELSE Pipeline(pdfLibDoc.pages, currentPageNum, "mutator")
       ELSE NothingDone
    /\ UNCHANGED <<uiVars, gestVars, textVars, pdfRenderTask,
                   thumbnailRenderTasks, reqs, painted>>

deletePage(pageNumToDelete, answer, fail) ==
    /\ IF totalPages > 1 /\ Proceeds(answer) /\ pdfLibDoc.loaded
       THEN IF pageNumToDelete \in 1..Len(pdfLibDoc.pages)
            THEN LET rest == SpliceOut(pdfLibDoc.pages, pageNumToDelete - 1).rest
                 IN Pipeline(rest, Min(pageNumToDelete, Len(rest)), fail)
            ELSE Pipeline(pdfLibDoc.pages, currentPageNum, "mutator")
       ELSE NothingDone
    /\ UNCHANGED <<uiVars, gestVars, textVars, pdfRenderTask,
                   thumbnailRenderTasks, reqs, painted>>

duplicatePage(pageNumToDuplicate, answer, fail) ==
    /\ IF Proceeds(answer) /\ pdfLibDoc.loaded
       THEN IF pageNumToDuplicate \in 1..Len(pdfLibDoc.pages)
            THEN LET pageIndexToDuplicate == pageNumToDuplicate - 1
                     copiedPage == pdfLibDoc.pages[pageNumToDuplicate]
                 IN Pipeline(SpliceIn(pdfLibDoc.pages, pageIndexToDuplicate + 1,
                                      copiedPage),
                             pageIndexToDuplicate + 2, fail)
            ELSE Pipeline(pdfLibDoc.pages, currentPageNum, "mutator")
       ELSE NothingDone
    /\ UNCHANGED <<uiVars, gestVars, textVars, pdfRenderTask,
                   thumbnailRenderTasks, reqs, painted>>

\* copiedPages.forEach((page, i) => existingPdfDoc.insertPage(insertionIndex + i, page))
RECURSIVE InsertAll(_, _, _)
InsertAll(pages, insertionIndex, copied) ==
    IF copied = <<>> THEN pages
    ELSE InsertAll(SpliceIn(pages, insertionIndex, Head(copied)),
                   insertionIndex + 1, Tail(copied))

processAndInsertPdf(file, insertionIndex, answer, fail) ==
    /\ IF Proceeds(answer)
       THEN IF pdfLibDoc.loaded
            THEN IF file.valid
                 THEN Pipeline(InsertAll(pdfLibDoc.pages, insertionIndex, file.pages),
                               insertionIndex + 1, fail)
                 ELSE Pipeline(pdfLibDoc.pages, currentPageNum, "mutator")
            ELSE \* isSaving.set(true); if (!existingPdfDoc) return; finally
                 /\ isSaving' = FALSE
                 /\ UNCHANGED <<pdfDoc, pdfLibDoc, currentPageNum, totalPages,
                                originalFileName, pageOrder, histVars,
                                annotations, selectedAnnotationIndex, tasks>>
       ELSE NothingDone
    /\ UNCHANGED <<uiVars, gestVars, textVars, pdfRenderTask,
                   thumbnailRenderTasks, reqs, painted>>

----------------------------------------------------------------------------
\* Text editing.

onTextInput(text) ==
    /\ textEditingState # <<>>
    /\ textEditingState' = <<[textEditingState[1] EXCEPT !.text = text]>>
    /\ UNCHANGED <<docVars, uiVars, gestVars, isEditingText, textSettings,
                   histVars, renderVars, annotations,
                   selectedAnnotationIndex>>

cancelTextAnnotation ==
    /\ isEditingText' = FALSE
    /\ textEditingState' = <<>>
    /\ UNCHANGED <<docVars, uiVars, gestVars, textSettings, histVars,
                   renderVars, annotations, selectedAnnotationIndex>>

\* The annotation the in-place branch of finalizeTextAnnotation stores:
\* { ...annToEdit, text: trimmedText, ...settings, width, height }.
EditedText(annToEdit, text, settings) ==
    LET m == measureText(text, settings) IN
    [annToEdit EXCEPT !.text = Trim(text),
                      !.font = settings.font, !.size = settings.size,
                      !.color = settings.color, !.bold = settings.bold,
                      !.width = m.width, !.height = m.height]

\* The annotation the insertion branch hands to addAnnotation.
NewText(state, settings) ==
    LET m == measureText(state.text, settings) IN
    [type |-> "text", text |-> Trim(state.text),
     x |-> ToDoc(state.x), y |-> ToDoc(state.y),
     font |-> settings.font, size |-> settings.size,
     color |-> settings.color, bold |-> settings.bold,
     width |-> m.width, height |-> m.height]

\* Whether finalizeTextAnnotation replaces an annotation in place.
EditsInPlace ==
    /\ selectedAnnotationIndex > -1 /\ pageIndexNow > -1
    /\ selectedAnnotationIndex < Len(annotations[pageIndexNow + 1])
    /\ annotations[pageIndexNow + 1][selectedAnnotationIndex + 1].type = "text"

\* The in-place branch: snapshot, clear redo, replace the annotation.
commitTextEdit(state, settings) ==
    /\ undoStack' = Append(undoStack, JsonClone(annotations))
    /\ redoStack' = <<>>
    /\ annotations' =
         [annotations EXCEPT
            ![pageIndexNow + 1][selectedAnnotationIndex + 1] =
                EditedText(@, state.text, settings)]

\* finalizeTextAnnotation without the check of the trimmed text.
finalizeTextAnnotationAnyText ==
    /\ isEditingText
    /\ IF textEditingState = <<>>
       THEN UNCHANGED <<annotations, histVars>>
       ELSE IF EditsInPlace
       THEN commitTextEdit(textEditingState[1], textSettings)
       ELSE addAnnotation(NewText(textEditingState[1], textSettings))
    /\ isEditingText' = FALSE
    /\ textEditingState' = <<>>
    /\ UNCHANGED <<docVars, uiVars, gestVars, textSettings, renderVars,
                   selectedAnnotationIndex>>

finalizeTextAnnotation ==
    /\ isEditingText
    /\ IF textEditingState = <<>> \/ Trim(textEditingState[1].text) = <<>>
       THEN UNCHANGED <<annotations, histVars>>          \* cancelTextAnnotation
       ELSE IF EditsInPlace
       THEN commitTextEdit(textEditingState[1], textSettings)
       ELSE addAnnotation(NewText(textEditingState[1], textSettings))
    /\ isEditingText' = FALSE
    /\ textEditingState' = <<>>
    /\ UNCHANGED <<docVars, uiVars, gestVars, textSettings, renderVars,
                   selectedAnnotationIndex>>

updateTextSetting(key, value) ==
    /\ textSettings' = [textSettings EXCEPT ![key] = value]
    /\ IF selectedAnnotationIndex # -1 /\ pageIndexNow # -1
       THEN LET pageAnns == annotations[pageIndexNow + 1] IN
            IF /\ selectedAnnotationIndex < Len(pageAnns)
               /\ pageAnns[selectedAnnotationIndex + 1].type = "text"
            THEN annotations' =
                   [annotations EXCEPT
                      ![pageIndexNow + 1][selectedAnnotationIndex + 1] =
                          LET updatedAnn ==
                                [@ EXCEPT !.font = textSettings'.font,
                                          !.size = textSettings'.size,
                                          !.color = textSettings'.color,
                                          !.bold = textSettings'.bold]
                              m == measureText(updatedAnn.text, updatedAnn)
                          IN [updatedAnn EXCEPT !.width = m.width,
                                                !.height = m.height]]
            ELSE UNCHANGED annotations
       ELSE UNCHANGED annotations
    /\ UNCHANGED <<docVars, uiVars, gestVars, isEditingText, textEditingState,
                   histVars, renderVars, selectedAnnotationIndex>>

----------------------------------------------------------------------------
\* Images.

\* The annotation img.onload of onImageSelected builds from an image of
\* img.width x img.height pixels: scaled by 1 / scale, fitted into 200 x 200
\* points, centred on the page (drawCanvas.clientWidth / scale is the page
\* width).
ImageAnn(img) ==
    LET w0 == ToDoc(img.width * 10)
        h0 == ToDoc(img.height * 10)
        pointWidth  == IF w0 > h0
                       THEN (IF w0 > MaxImagePoints THEN MaxImagePoints ELSE w0)
                       ELSE (IF h0 > MaxImagePoints
                             THEN (w0 * MaxImagePoints) \div h0 ELSE w0)
        pointHeight == IF w0 > h0
                       THEN (IF w0 > MaxImagePoints
                             THEN (h0 * MaxImagePoints) \div w0 ELSE h0)
                       ELSE (IF h0 > MaxImagePoints THEN MaxImagePoints ELSE h0)
    IN [type |-> "image",
        x |-> (PageSize.width - pointWidth) \div 2,
        y |-> (PageSize.height - pointHeight) \div 2,
        width |-> pointWidth, height |-> pointHeight,
        imageData |-> img.imageData,
        originalAspectRatio |-> [num |-> img.height, den |-> img.width]]

\* The img.onload callback of onImageSelected.
onImageSelected(img) ==
    /\ pdfDoc.loaded                                     \* addImage, drawCanvas
    /\ addAnnotation(ImageAnn(img))
    /\ selectedAnnotationIndex' =
         IF pageIndexNow > -1 THEN Len(annotations'[pageIndexNow + 1]) - 1
         ELSE selectedAnnotationIndex
    /\ UNCHANGED <<docVars, uiVars, gestVars, textVars, renderVars>>

----------------------------------------------------------------------------
\* Deletion and page reordering.

\* The first branch of onDeleteKeyPressed.
\* The deletion with the redo stack left as it was.
deleteSelectedKeepsRedo ==
    /\ undoStack' = Append(undoStack, JsonClone(annotations))
    /\ redoStack' = redoStack
    /\ annotations' =
         IF pageIndexNow = -1 THEN annotations
         ELSE [annotations EXCEPT ![pageIndexNow + 1] =
                  SpliceOut(@, selectedAnnotationIndex).rest]
    /\ selectedAnnotationIndex' = -1

\* The deletion with the selection left on the removed index.
deleteSelectedKeepsSelection ==
    /\ undoStack' = Append(undoStack, JsonClone(annotations))
    /\ redoStack' = <<>>
    /\ annotations' =
         IF pageIndexNow = -1 THEN annotations
         ELSE [annotations EXCEPT ![pageIndexNow + 1] =
                  SpliceOut(@, selectedAnnotationIndex).rest]
    /\ selectedAnnotationIndex' = selectedAnnotationIndex

deleteSelected ==
    /\ undoStack' = Append(undoStack, JsonClone(annotations))
    /\ redoStack' = <<>>
    /\ annotations' =
         IF pageIndexNow = -1 THEN annotations
         ELSE [annotations EXCEPT ![pageIndexNow + 1] =
                  SpliceOut(@, selectedAnnotationIndex).rest]
    /\ selectedAnnotationIndex' = -1

\* onDeleteKeyPressed that routes to deletePage from every tab.
onDeleteKeyPressedAnyTab(answer, fail) ==
    IF selectedAnnotationIndex > -1
    THEN /\ deleteSelected
         /\ UNCHANGED <<docVars, uiVars, gestVars, textVars, renderVars>>
    ELSE IF pdfDoc.loaded /\ totalPages > 1
    THEN deletePage(currentPageNum, answer, fail)
    ELSE UNCHANGED <<docVars, uiVars, gestVars, textVars, histVars,
                     renderVars, annotations, selectedAnnotationIndex>>

onDeleteKeyPressed(answer, fail) ==
    IF selectedAnnotationIndex > -1
    THEN /\ deleteSelected
         /\ UNCHANGED <<docVars, uiVars, gestVars, textVars, renderVars>>
    ELSE IF activeTab = "organize" /\ pdfDoc.loaded /\ totalPages > 1
    THEN deletePage(currentPageNum, answer, fail)
    ELSE UNCHANGED <<docVars, uiVars, gestVars, textVars, histVars,
                     renderVars, annotations, selectedAnnotationIndex>>

\* reorderPages that moves the page and leaves the annotation lists in place.
reorderPagesOrderOnly(dragIndex, dropIndex) ==
    /\ IF dropIndex = dragIndex \/ dropIndex = dragIndex + 1
       THEN UNCHANGED <<pageOrder, annotations>>
       ELSE LET adjustedDropIndex == IF dragIndex < dropIndex THEN dropIndex - 1
                                     ELSE dropIndex
                order == SpliceOut(pageOrder, dragIndex)
            IN /\ pageOrder' = SpliceIn(order.rest, adjustedDropIndex,
                                        order.removed[1])
               /\ annotations' = annotations
    /\ UNCHANGED <<pdfDoc, pdfLibDoc, currentPageNum, totalPages,
                   originalFileName, isSaving, uiVars, gestVars, textVars,
                   histVars, renderVars, selectedAnnotationIndex>>

reorderPages(dragIndex, dropIndex) ==
    /\ IF dropIndex = dragIndex \/ dropIndex = dragIndex + 1
       THEN UNCHANGED <<pageOrder, annotations>>
       ELSE LET adjustedDropIndex == IF dragIndex < dropIndex THEN dropIndex - 1
                                     ELSE dropIndex
                order == SpliceOut(pageOrder, dragIndex)
                anns  == SpliceOut(annotations, dragIndex)
            IN /\ pageOrder' = SpliceIn(order.rest, adjustedDropIndex,
                                        order.removed[1])
               /\ annotations' = SpliceIn(anns.rest, adjustedDropIndex,
                                          anns.removed[1])
    /\ UNCHANGED <<pdfDoc, pdfLibDoc, currentPageNum, totalPages,
                   originalFileName, isSaving, uiVars, gestVars, textVars,
                   histVars, renderVars, selectedAnnotationIndex>>

\* onDrop(dropIndex) with draggedPageIndex() = dragIndex.
onDrop(dragIndex, dropIndex) ==
    IF dragIndex > -1
    THEN reorderPages(dragIndex, dropIndex)
    ELSE UNCHANGED <<docVars, uiVars, gestVars, textVars, histVars, renderVars,
                     annotations, selectedAnnotationIndex>>

----------------------------------------------------------------------------
\* Export.  The exported document is a sequence of pages, each the copied
\* source page and the drawing operations added to it, in order.  A password
\* is a sequence of characters, <<>> for none.

\* fileNameSuffix: '(編集・保護済み)' and '(編集済み)'.
ProtectedSuffix == "(edited, protected)"
EditedSuffix == "(edited)"

\* The operation of an annotation with a text placed by its top edge.
ExportedAnnTextTop(ann, pdfPageHeight) ==
    CASE ann.type = "image" ->
            [kind |-> "image", image |-> ann.imageData, x |-> ann.x,
             y |-> pdfPageHeight - ann.y - ann.height,
             width |-> ann.width, height |-> ann.height]
      [] ann.type = "text" ->
            [kind |-> "text", text |-> ann.text, x |-> ann.x,
             y |-> pdfPageHeight - ann.y,
             font |-> ann.font, bold |-> ann.bold, size |-> ann.size,
             color |-> ann.color]
      [] ann.type = "draw" ->
            [kind |-> "draw",
             path |-> [k \in 1..Len(ann.path) |->
                          [x |-> ann.path[k].x,
                           y |-> pdfPageHeight - ann.path[k].y]],
             borderWidth |-> ann.lineWidth]

\* The operation one annotation adds to a page of height pdfPageHeight.
\* A font size is in points, a length in tenths of a point.
ExportedAnn(ann, pdfPageHeight) ==
    CASE ann.type = "image" ->
            [kind |-> "image", image |-> ann.imageData, x |-> ann.x,
             y |-> pdfPageHeight - ann.y - ann.height,
             width |-> ann.width, height |-> ann.height]
      [] ann.type = "text" ->
            [kind |-> "text", text |-> ann.text, x |-> ann.x,
             y |-> pdfPageHeight - ann.y - ann.size * 10,
             font |-> ann.font, bold |-> ann.bold, size |-> ann.size,
             color |-> ann.color]
      [] ann.type = "draw" ->
            [kind |-> "draw",
             path |-> [k \in 1..Len(ann.path) |->
                          [x |-> ann.path[k].x,
                           y |-> pdfPageHeight - ann.path[k].y]],
             borderWidth |-> ann.lineWidth]

\* The page number and the watermark drawn on the page at position i
\* (1-based; the number drawn is i - 1 + startPage).
Decorations(i, settings, watermark) ==
    (IF settings.visible
     THEN <<[kind |-> "pageNumber", text |-> i - 1 + settings.startPage]>>
     ELSE <<>>)
    \o (IF watermark.visible /\ watermark.text # <<>>
        THEN <<[kind |-> "watermark", text |-> watermark.text]>>
        ELSE <<>>)

\* The page that takes its annotations from the list of its source page.
ExportedPageBySource(i, settings, watermark) ==
    [page |-> pdfLibDoc.pages[pageOrder[i]],
     ops  |-> Decorations(i, settings, watermark)
              \o (IF pageOrder[i] <= Len(annotations)
                  THEN [k \in 1..Len(annotations[pageOrder[i]]) |->
                           ExportedAnn(annotations[pageOrder[i]][k],
                                       PageSize.height)]
                  ELSE <<>>)]

\* pages[i] after the three loops of savePdf.
ExportedPage(i, settings, watermark) ==
    [page |-> pdfLibDoc.pages[pageOrder[i]],
     ops  |-> Decorations(i, settings, watermark)
              \o (IF i <= Len(annotations)
                  THEN [k \in 1..Len(annotations[i]) |->
                           ExportedAnn(annotations[i][k], PageSize.height)]
                  ELSE <<>>)]

\* The file handed to the browser.
ExportedFile(password, settings, watermark, canEncrypt) ==
    [name |-> <<originalFileName,
                IF password # <<>> THEN ProtectedSuffix ELSE EditedSuffix,
                ".pdf">>,
     encrypted |-> password # <<>> /\ canEncrypt,
     pages |-> [i \in 1..Len(pageOrder) |->
                   ExportedPage(i, settings, watermark)]]

\* savePdf(password).  settings and watermark are pageNumberSettings() and
\* watermarkSettings(); canEncrypt is typeof newPdfDoc.encrypt === 'function';
\* ok is FALSE when an awaited call rejects (copyPages does when a page of the
\* order is not in the mutator's document).
savePdf(password, settings, watermark, canEncrypt, ok) ==
    /\ IF ~pdfLibDoc.loaded
       THEN UNCHANGED <<isSaving, download>>
       ELSE /\ isSaving' = FALSE
            /\ IF ok /\ \A i \in 1..Len(pageOrder) :
                           pageOrder[i] \in 1..Len(pdfLibDoc.pages)
               THEN download' = <<ExportedFile(password, settings, watermark,
                                               canEncrypt)>>
               ELSE UNCHANGED download
    /\ UNCHANGED <<pdfDoc, pdfLibDoc, currentPageNum, totalPages,
                   originalFileName, pageOrder, uiVars, gestVars, textVars,
                   histVars, renderVars, annotations, selectedAnnotationIndex>>

applyPasswordAndSave(pw, confirmPw, settings, watermark, canEncrypt, ok) ==
    IF pw = <<>> \/ pw # confirmPw
    THEN UNCHANGED <<docVars, uiVars, gestVars, textVars, histVars,
                     renderVars, annotations, selectedAnnotationIndex,
                     download>>
    ELSE savePdf(pw, settings, watermark, canEncrypt, ok)

----------------------------------------------------------------------------
\* Rasterization.  A surface is "main" (the page canvas) or a thumbnail
\* canvas.  Request r is one call of renderPage or renderThumbnail; the task
\* page.render() returns to it is task r.  A task is "none" (not started),
\* "running", "cancelled" (cancel() was called, the rejection is pending) or
\* "settled" (its promise was handled).

ThumbCanvases == {"thumb-canvas-1"}
Surfaces == {"main"} \cup ThumbCanvases
Reqs == 1..MaxReqs

NoTasks == [t \in Reqs |-> [surface |-> "main", status |-> "none"]]
NoReqs == [r \in Reqs |-> [pc |-> "new", surface |-> "main"]]

\* Requests are taken in the order of their ids.
NextReq(r) == reqs[r].pc = "new" /\ \A q \in 1..(r - 1) : reqs[q].pc # "new"

\* renderPage(num), to its first await (pdf.getPage).
renderPage(r) ==
    /\ NextReq(r)
    /\ pdfDoc.loaded
    /\ tasks' = Cancelled(tasks, pdfRenderTask)
    /\ reqs' = [reqs EXCEPT ![r] = [pc |-> "getPage", surface |-> "main"]]
    /\ UNCHANGED <<docVars, uiVars, gestVars, textVars, histVars,
                   annotations, selectedAnnotationIndex, pdfRenderTask,
                   thumbnailRenderTasks, painted>>

\* renderPage from the resolution of getPage to the await of the task's
\* promise; when getPage rejects, the catch and the finally.
renderPageGotPage(r, ok) ==
    /\ reqs[r].pc = "getPage" /\ reqs[r].surface = "main"
    /\ IF ok
       THEN /\ tasks' = [tasks EXCEPT ![r] = [surface |-> "main",
                                              status |-> "running"]]
            /\ pdfRenderTask' = r
            /\ reqs' = [reqs EXCEPT ![r].pc = "rendering"]
       ELSE /\ pdfRenderTask' = 0
            /\ reqs' = [reqs EXCEPT ![r].pc = "finished"]
            /\ UNCHANGED tasks
    /\ UNCHANGED <<docVars, uiVars, gestVars, textVars, histVars,
                   annotations, selectedAnnotationIndex, thumbnailRenderTasks,
                   painted>>

\* renderPage after `await this.pdfRenderTask.promise`: a running task ends
\* well (completed = TRUE) or with an error, a cancelled task rejects.
renderPageSettled(r, completed) ==
    /\ reqs[r].pc = "rendering" /\ reqs[r].surface = "main"
    /\ tasks[r].status = "cancelled" => ~completed
    /\ tasks' = [tasks EXCEPT ![r].status = "settled"]
    /\ painted' = IF completed THEN painted \cup {r} ELSE painted
    /\ pdfRenderTask' = 0
    /\ reqs' = [reqs EXCEPT ![r].pc = "finished"]
    /\ UNCHANGED <<docVars, uiVars, gestVars, textVars, histVars,
                   annotations, selectedAnnotationIndex, thumbnailRenderTasks>>

\* renderThumbnail(pdf, pageNum, canvas), to its first await.
renderThumbnail(r, canvas) ==
    /\ NextReq(r)
    /\ pdfDoc.loaded
    /\ tasks' = Cancelled(tasks, thumbnailRenderTasks[canvas])
    /\ reqs' = [reqs EXCEPT ![r] = [pc |-> "getPage", surface |-> canvas]]
    /\ UNCHANGED <<docVars, uiVars, gestVars, textVars, histVars,
                   annotations, selectedAnnotationIndex, pdfRenderTask,
                   thumbnailRenderTasks, painted>>

renderThumbnailGotPage(r, ok) ==
    /\ reqs[r].pc = "getPage" /\ reqs[r].surface \in ThumbCanvases
    /\ IF ok
       THEN /\ tasks' = [tasks EXCEPT ![r] = [surface |-> reqs[r].surface,
                                              status |-> "running"]]
            /\ thumbnailRenderTasks' =
                 [thumbnailRenderTasks EXCEPT ![reqs[r].surface] = r]
            /\ reqs' = [reqs EXCEPT ![r].pc = "rendering"]
       ELSE \* renderTask is undefined: the finally deletes nothing
            /\ reqs' = [reqs EXCEPT ![r].pc = "finished"]
            /\ UNCHANGED <<tasks, thumbnailRenderTasks>>
    /\ UNCHANGED <<docVars, uiVars, gestVars, textVars, histVars,
                   annotations, selectedAnnotationIndex, pdfRenderTask, painted>>

renderThumbnailSettled(r, completed) ==
    /\ reqs[r].pc = "rendering" /\ reqs[r].surface \in ThumbCanvases
    /\ tasks[r].status = "cancelled" => ~completed
    /\ tasks' = [tasks EXCEPT ![r].status = "settled"]
    /\ thumbnailRenderTasks' =
         IF thumbnailRenderTasks[reqs[r].surface] = r
         THEN [thumbnailRenderTasks EXCEPT ![reqs[r].surface] = 0]
         ELSE thumbnailRenderTasks
    /\ reqs' = [reqs EXCEPT ![r].pc = "finished"]
    /\ UNCHANGED <<docVars, uiVars, gestVars, textVars, histVars,
                   annotations, selectedAnnotationIndex, pdfRenderTask, painted>>

----------------------------------------------------------------------------
\* The inputs of the runs.

\* Pointer positions, in tenths of a pixel relative to the page canvas.
PtrSet == {[x |-> 0, y |-> 0]}

\* What a user types into the text box.
TextInputs == {<<"a">>, <<"b">>}

\* The images a user picks: imageData and the pixel size of the decoded image.
Images == {[imageData |-> "img1", width |-> 150, height |-> 75]}

\* The page canvas, the drawing canvas and the text box are part of the view
\* of a loaded document: getMousePos returns null without them.
CanvasPresent == pdfDoc.loaded

----------------------------------------------------------------------------
\* The record of a run of commits, undos and redos, kept for the properties.
\* gLog[1] is the model before the first commit of the run and gLog[i + 1] the
\* model after its i-th commit; gUndos and gRedos count the calls of undo and
\* of redo that followed.  A change of the model that is not a commit, an undo
\* or a redo ends the run ("void"); the next commit starts a new one.
\* download and running are kept with the record: the handlers of an editing
\* session leave them alone.

GhostKeep == UNCHANGED ghostVars

GhostVoid ==
    /\ gPhase' = "void" /\ gLog' = <<>> /\ gUndos' = 0 /\ gRedos' = 0
    /\ UNCHANGED <<download, running>>

GhostCommit ==
    /\ gLog' = IF gPhase = "mut" THEN Append(gLog, annotations')
               ELSE <<annotations, annotations'>>
    /\ gPhase' = "mut" /\ gUndos' = 0 /\ gRedos' = 0
    /\ UNCHANGED <<download, running>>

GhostUndo ==
    IF gPhase \in {"mut", "undo"} /\ gUndos < Len(gLog) - 1
    THEN /\ gPhase' = "undo" /\ gUndos' = gUndos + 1
         /\ UNCHANGED <<gLog, gRedos, download, running>>
    ELSE GhostVoid

GhostRedo ==
    IF gPhase \in {"undo", "redo"} /\ gRedos < gUndos
    THEN /\ gPhase' = "redo" /\ gRedos' = gRedos + 1
         /\ UNCHANGED <<gLog, gUndos, download, running>>
    ELSE GhostVoid

----------------------------------------------------------------------------
\* The state after construction.

Init ==
    /\ pdfDoc = NullDoc /\ pdfLibDoc = NullDoc
    /\ currentPageNum = 1 /\ totalPages = 0
    /\ originalFileName = ""
    /\ scale = DefaultScale
    /\ activeTab = "edit" /\ activeTool = "select"
    /\ isSaving = FALSE
    /\ pageOrder = <<>>
    /\ annotations = <<>>
    /\ isDrawing = FALSE /\ currentDrawingPath = <<>>
    /\ isEditingText = FALSE /\ textEditingState = <<>>
    /\ textSettings = [font |-> "Helvetica", size |-> DefaultTextSize,
                       color |-> "#000000", bold |-> FALSE]
    /\ selectedAnnotationIndex = -1
    /\ dragMode = "none"
    /\ dragStartPos = [x |-> 0, y |-> 0]
    /\ dragStartAnn = [x |-> 0, y |-> 0, width |-> 0, height |-> 0]
    /\ undoStack = <<>> /\ redoStack = <<>>
    /\ pdfRenderTask = 0
    /\ thumbnailRenderTasks = [c \in ThumbCanvases |-> 0]
    /\ tasks = NoTasks /\ reqs = NoReqs /\ painted = {}
    /\ gLog = <<>> /\ gPhase = "void" /\ gUndos = 0 /\ gRedos = 0
    /\ download = <<>> /\ running = {}

\* The calls of undo and redo: the buttons can be pressed with an empty stack,
\* and the handler then returns at once.
undoCall ==
    \/ undo
    \/ /\ undoStack = <<>>
       /\ UNCHANGED <<docVars, uiVars, gestVars, textVars, histVars,
                      renderVars, annotations, selectedAnnotationIndex>>

redoCall ==
    \/ redo
    \/ /\ redoStack = <<>>
       /\ UNCHANGED <<docVars, uiVars, gestVars, textVars, histVars,
                      renderVars, annotations, selectedAnnotationIndex>>

----------------------------------------------------------------------------
\* Spec: an editing session on a two-page document.  Text is typed and edited
\* in place, images are placed, the selected annotation is deleted, commits
\* are undone and redone, pages are visited.

EditFiles == {[name |-> "a", valid |-> TRUE, pages |-> FreshPages(2)]}
EditTools == {"select", "text"}

HistRoom == Len(undoStack) < MaxHist

OpenFile ==
    \E file \in EditFiles : onFileSelected(file) /\ GhostVoid

MouseDown ==
    \E pos \in PtrSet : CanvasPresent /\ onMouseDown(pos) /\ GhostKeep

MouseUp ==
    CanvasPresent /\ ~isDrawing /\ onMouseUp /\ GhostKeep

DblClick ==
    \E pos \in PtrSet : CanvasPresent /\ onDblClick(pos) /\ GhostKeep

TextInput ==
    \E text \in TextInputs : onTextInput(text) /\ GhostKeep

FinalizeText ==
    IF isEditingText /\ textEditingState # <<>>
       /\ Trim(textEditingState[1].text) # <<>>
    THEN HistRoom /\ finalizeTextAnnotation /\ GhostCommit
    ELSE finalizeTextAnnotation /\ GhostKeep

CancelText ==
    isEditingText /\ cancelTextAnnotation /\ GhostKeep

ImageSelected ==
    \E img \in Images : HistRoom /\ onImageSelected(img) /\ GhostCommit

DeleteKey ==
    /\ selectedAnnotationIndex > -1
    /\ HistRoom /\ onDeleteKeyPressed(TRUE, "none") /\ GhostCommit

UndoCall == undoCall /\ GhostUndo

RedoCall == redoCall /\ GhostRedo

GoToPage ==
    \E num \in 1..2 : pdfDoc.loaded /\ onPageInput(num) /\ GhostKeep

SelectTool ==
    \E tool \in EditTools : selectTool(tool) /\ GhostKeep

Next ==
    \/ OpenFile
    \/ MouseDown
    \/ MouseUp
    \/ DblClick
    \/ TextInput
    \/ FinalizeText
    \/ CancelText
    \/ ImageSelected
    \/ DeleteKey
    \/ UndoCall
    \/ RedoCall
    \/ GoToPage
    \/ SelectTool

Spec == Init /\ [][Next]_vars

----------------------------------------------------------------------------
\* SpecDoc: a document session.  Files are opened (well-formed or not), pages
\* are rotated, deleted, duplicated, inserted and reordered, images are placed
\* and their placement undone and redone.  The record of commits is not kept.

DocHistRoom == Len(undoStack) < MaxDocHist

\* The inputs drawn for a structural operation.  An answer is drawn only when
\* confirm() is asked, a failure only when the operation runs, and a save
\* fails only on a document whose two handles still agree, so the mutator is
\* at most one failed operation ahead of the rasterizer.
Draws(answer, fail) ==
    /\ HasAnnotations \/ answer
    /\ (answer /\ pdfLibDoc.loaded) \/ fail = "none"
    /\ fail = "save" => pdfLibDoc = pdfDoc

DocOpenFile ==
    \E file \in Files : onFileSelected(file) /\ GhostKeep

\* The pages turned away from upright.  Pages are turned one at a time: a page
\* is turned only while no other page of the document is.
Turned(pages) == {i \in 1..Len(pages) : pages[i].rot # 0}

DocRotate ==
    \E degrees \in {90, -90}, num \in 1..MaxPages,
       answer \in BOOLEAN, fail \in Fails :
        /\ num <= totalPages /\ Draws(answer, fail)
        /\ Turned(pdfLibDoc.pages) \subseteq {num}
        /\ rotatePage(degrees, num, answer, fail) /\ GhostKeep

DocDelete ==
    \E num \in 1..MaxPages, answer \in BOOLEAN, fail \in Fails :
        /\ pdfDoc.loaded /\ num <= totalPages /\ Draws(answer, fail)
        /\ deletePage(num, answer, fail) /\ GhostKeep

DocDuplicate ==
    \E num \in 1..MaxPages, answer \in BOOLEAN, fail \in Fails :
        /\ num <= totalPages /\ Len(pdfLibDoc.pages) < MaxPages
        /\ Draws(answer, fail)
        /\ duplicatePage(num, answer, fail) /\ GhostKeep

DocInsert ==
    \E file \in InsertFiles, insertionIndex \in 0..MaxPages,
       answer \in BOOLEAN, fail \in Fails :
        /\ pdfDoc.loaded /\ Draws(answer, fail)
        /\ file.valid \/ fail = "none"
        /\ insertionIndex <= totalPages /\ Len(pdfLibDoc.pages) < MaxPages
        /\ processAndInsertPdf(file, insertionIndex, answer, fail) /\ GhostKeep

DocImage ==
    \E img \in Images : DocHistRoom /\ onImageSelected(img) /\ GhostKeep

DocUndo == undo /\ GhostKeep

DocRedo == redo /\ GhostKeep

NextDoc ==
    \/ DocOpenFile
    \/ DocRotate
    \/ DocDelete
    \/ DocDuplicate
    \/ DocInsert
    \/ DocImage
    \/ DocUndo
    \/ DocRedo

SpecDoc == Init /\ [][NextDoc]_vars

----------------------------------------------------------------------------
\* SpecReorder: a reordering session.  It starts where a file of n pages was
\* opened and, page after page in the order of the file, the page was visited
\* and an image of its own was placed on it; pages are then dragged and
\* dropped, and visited.

PageImage(p) == [imageData |-> p, width |-> 150, height |-> 75]

\* The model and the undo stack once pages 1..p of an n-page document carry
\* their image: each placement is an addAnnotation on the page visited.
RECURSIVE Placed(_, _)
Placed(n, p) ==
    IF p = 0
    THEN [annotations |-> [i \in 1..n |-> <<>>], undoStack |-> <<>>]
    ELSE LET before == Placed(n, p - 1) IN
         [annotations |-> [before.annotations EXCEPT
                             ![p] = Append(@, ImageAnn(PageImage(p)))],
          undoStack |-> Append(before.undoStack,
                               JsonClone(before.annotations))]

InitReorder ==
    \E n \in 1..MaxOrderPages :
        /\ pdfDoc = DocOf(FreshPages(n)) /\ pdfLibDoc = DocOf(FreshPages(n))
        /\ currentPageNum = n /\ totalPages = n
        /\ originalFileName = "a"
        /\ scale = DefaultScale
        /\ activeTab = "organize" /\ activeTool = "select"
        /\ isSaving = FALSE
        /\ pageOrder = [i \in 1..n |-> i]
        /\ annotations = Placed(n, n).annotations
        /\ isDrawing = FALSE /\ currentDrawingPath = <<>>
        /\ isEditingText = FALSE /\ textEditingState = <<>>
        /\ textSettings = [font |-> "Helvetica", size |-> DefaultTextSize,
                           color |-> "#000000", bold |-> FALSE]
        /\ selectedAnnotationIndex = 0
        /\ dragMode = "none"
        /\ dragStartPos = [x |-> 0, y |-> 0]
        /\ dragStartAnn = [x |-> 0, y |-> 0, width |-> 0, height |-> 0]
        /\ undoStack = Placed(n, n).undoStack /\ redoStack = <<>>
        /\ pdfRenderTask = 0
        /\ thumbnailRenderTasks = [c \in ThumbCanvases |-> 0]
        /\ tasks = NoTasks /\ reqs = NoReqs /\ painted = {}
        /\ gLog = <<>> /\ gPhase = "void" /\ gUndos = 0 /\ gRedos = 0
        /\ download = <<>> /\ running = {}

OrderDrop ==
    \E dragIndex \in 0..(Len(pageOrder) - 1), dropIndex \in 0..Len(pageOrder) :
        onDrop(dragIndex, dropIndex) /\ GhostKeep

OrderGoToPage ==
    \E num \in 1..MaxOrderPages : onPageInput(num) /\ GhostKeep

NextReorder ==
    \/ OrderDrop
    \/ OrderGoToPage

SpecReorder == InitReorder /\ [][NextReorder]_vars

----------------------------------------------------------------------------
\* SpecRender: a rasterization session.  A file is opened; the effects ask for
\* the page and for a thumbnail to be drawn, and each request advances from
\* await to await in any order the event loop allows.

RenderOpenFile ==
    \E file \in EditFiles : onFileSelected(file) /\ GhostKeep

RenderPage ==
    \E r \in Reqs : renderPage(r) /\ GhostKeep

RenderPageGotPage ==
    \E r \in Reqs, ok \in BOOLEAN : renderPageGotPage(r, ok) /\ GhostKeep

RenderPageSettled ==
    \E r \in Reqs, completed \in BOOLEAN :
        renderPageSettled(r, completed) /\ GhostKeep

RenderThumbnail ==
    \E r \in Reqs, canvas \in ThumbCanvases :
        renderThumbnail(r, canvas) /\ GhostKeep

RenderThumbnailGotPage ==
    \E r \in Reqs, ok \in BOOLEAN : renderThumbnailGotPage(r, ok) /\ GhostKeep

RenderThumbnailSettled ==
    \E r \in Reqs, completed \in BOOLEAN :
        renderThumbnailSettled(r, completed) /\ GhostKeep

NextRender ==
    \/ RenderOpenFile
    \/ RenderPage
    \/ RenderPageGotPage
    \/ RenderPageSettled
    \/ RenderThumbnail
    \/ RenderThumbnailGotPage
    \/ RenderThumbnailSettled

SpecRender == Init /\ [][NextRender]_vars

----------------------------------------------------------------------------
\* Properties of the editing session (Spec).

\* C1: after N committed mutations (addAnnotation, deletion of the selected
\* annotation, in-place text-edit commit) followed by N calls of undo, the
\* annotation model equals M0, the model before the first of them.
UndoAllRestoresM0 ==
    (gPhase = "undo" /\ gUndos = Len(gLog) - 1) => annotations = gLog[1]

\* Two commits that changed the model have been undone, one by one.
UndoAllReached ==
    /\ gPhase = "undo" /\ Len(gLog) = 3 /\ gUndos = 2
    /\ gLog[2] # gLog[1] /\ gLog[3] # gLog[2]

\* C2: after N committed mutations, k calls of undo (k <= N) leave the model
\* as it was just before the (N - k + 1)-th mutation, and k calls of redo
\* directly after them return it to the model after the N-th mutation.
UndoRedoInverse ==
    /\ gPhase = "undo" => annotations = gLog[Len(gLog) - gUndos]
    /\ (gPhase = "redo" /\ gRedos = gUndos) => annotations = gLog[Len(gLog)]

\* Two commits, two undos and two redos in a row.
UndoRedoReached ==
    /\ gPhase = "redo" /\ Len(gLog) = 3 /\ gUndos = 2 /\ gRedos = 2
    /\ gLog[3] # gLog[2] /\ gLog[2] # gLog[1]

\* A step that commits a mutation.
IsCommit == gPhase' = "mut" /\ gLog' # gLog

\* C10: committing a mutation pushes the annotation model as it was before
\* the mutation onto the undo stack, whose depth grows by exactly one, and
\* empties the redo stack.
CommitPushesSnapshot ==
    [][IsCommit => /\ undoStack' = Append(undoStack, annotations)
                   /\ redoStack' = <<>>]_vars

\* A deletion was committed on top of an earlier snapshot.
CommitReached ==
    /\ gPhase = "mut" /\ Len(gLog) = 2 /\ Len(undoStack) = 2
    /\ undoStack[2] = gLog[1] /\ redoStack = <<>>
    /\ \E p \in 1..Len(annotations) : Len(gLog[2][p]) < Len(gLog[1][p])

----------------------------------------------------------------------------
\* Properties of the reordering session (SpecReorder).

PageIds(order) == {order[i] : i \in 1..Len(order)}

\* C3: reorderPages(dragIndex, dropIndex) applies the identical permutation
\* to pageOrder and to the annotation lists: for every page identifier p the
\* list at p's index after the reorder is the list that was at p's index
\* before it, pageOrder stays a permutation of the same identifiers, and a
\* drop at dragIndex or dragIndex + 1 changes nothing.
ReorderInLockstep ==
    [][\A dragIndex \in 0..(Len(pageOrder) - 1), dropIndex \in 0..Len(pageOrder) :
          reorderPages(dragIndex, dropIndex) =>
            /\ Len(pageOrder') = Len(pageOrder)
            /\ PageIds(pageOrder') = PageIds(pageOrder)
            /\ Len(annotations') = Len(annotations)
            /\ \A p \in PageIds(pageOrder) :
                  annotations'[IndexOf(pageOrder', p) + 1] =
                      annotations[IndexOf(pageOrder, p) + 1]
            /\ (dropIndex = dragIndex \/ dropIndex = dragIndex + 1) =>
                  (pageOrder' = pageOrder /\ annotations' = annotations)
      ]_vars

\* A page was moved: the order is no longer the file's, and every page still
\* has its own image.
ReorderReached ==
    /\ Len(pageOrder) = 4 /\ pageOrder # <<1, 2, 3, 4>>
    /\ \A i \in 1..4 : annotations[i] = <<ImageAnn(PageImage(pageOrder[i]))>>

\* C4, as the code has it: in a 4-page document with page order
\* [p0, p1, p2, p3], reorderPages(0, 2) drops the page into the gap before
\* index 2 and produces [p1, p0, p2, p3], the annotation lists permuted
\* identically.
ReorderZeroToTwo ==
    [][(Len(pageOrder) = 4 /\ reorderPages(0, 2)) =>
          /\ pageOrder' = <<pageOrder[2], pageOrder[1], pageOrder[3], pageOrder[4]>>
          /\ annotations' = <<annotations[2], annotations[1],
                              annotations[3], annotations[4]>>]_vars

\* The first two pages of the file's order have changed places.
ReorderZeroToTwoReached ==
    /\ pageOrder = <<2, 1, 3, 4>>
    /\ annotations = <<<<ImageAnn(PageImage(2))>>, <<ImageAnn(PageImage(1))>>,
                       <<ImageAnn(PageImage(3))>>, <<ImageAnn(PageImage(4))>>>>

\* C4, as the specification has it: reorderPages(0, 2) on [p0, p1, p2, p3]
\* produces [p1, p2, p0, p3], the annotation lists permuted identically.
ReorderZeroToTwoAsStated ==
    [][(Len(pageOrder) = 4 /\ reorderPages(0, 2)) =>
          /\ pageOrder' = <<pageOrder[2], pageOrder[3], pageOrder[1], pageOrder[4]>>
          /\ annotations' = <<annotations[2], annotations[3],
                              annotations[1], annotations[4]>>]_vars

----------------------------------------------------------------------------
\* Properties of the document session (SpecDoc).

\* A structural operation asked for and declined.  What would fail further on
\* is never reached.
Declined ==
    \/ \E degrees \in {90, -90}, num \in 1..MaxPages :
          rotatePage(degrees, num, FALSE, "none")
    \/ \E num \in 1..MaxPages : deletePage(num, FALSE, "none")
    \/ \E num \in 1..MaxPages : duplicatePage(num, FALSE, "none")
    \/ \E file \in InsertFiles, insertionIndex \in 0..MaxPages :
          processAndInsertPdf(file, insertionIndex, FALSE, "none")

\* C5: a structural page operation (rotatePage, deletePage, duplicatePage,
\* processAndInsertPdf) invoked while some page has annotations asks for
\* confirmation first; when the user declines, the document handles, the page
\* count, the page order, the current page, the annotations and the undo and
\* redo stacks are what they were before the attempt.
DeclineChangesNothing ==
    [][(HasAnnotations /\ Declined) =>
          UNCHANGED <<pdfDoc, pdfLibDoc, totalPages, pageOrder, currentPageNum,
                      annotations, undoStack, redoStack>>]_vars

\* A loaded document of two pages carries an annotation, and each of the
\* four operations can be asked for and declined.
DeclineReached ==
    /\ HasAnnotations /\ pdfLibDoc.loaded /\ totalPages = 2
    /\ undoStack # <<>>
    /\ ENABLED (DocRotate /\ Declined)
    /\ ENABLED (DocDelete /\ Declined)

\* A structural operation that met a failure.
Failed ==
    \E fail \in Fails \ {"none"}, answer \in BOOLEAN :
        \/ \E degrees \in {90, -90}, num \in 1..MaxPages :
              rotatePage(degrees, num, answer, fail)
        \/ \E num \in 1..MaxPages : deletePage(num, answer, fail)
        \/ \E num \in 1..MaxPages : duplicatePage(num, answer, fail)
        \/ \E file \in InsertFiles, insertionIndex \in 0..MaxPages :
              processAndInsertPdf(file, insertionIndex, answer, fail)

\* C6: a structural operation that fails at any step (a mutator call, the
\* serialization, the reload through loadPdf) is fully abandoned: both
\* document handles and their pages, the page count, the page order, the
\* annotations and the history are what they were before the attempt.
FailureAbandonsOperation ==
    [][Failed =>
          UNCHANGED <<pdfDoc, pdfLibDoc, totalPages, pageOrder, annotations,
                      undoStack, redoStack>>]_vars

\* A file was picked and could not be loaded.
LoadFailed == \E file \in Files : ~file.valid /\ onFileSelected(file)

EmptyEditor ==
    /\ pdfDoc = NullDoc /\ pdfLibDoc = NullDoc
    /\ totalPages = 0 /\ pageOrder = <<>> /\ annotations = <<>>
    /\ undoStack = <<>> /\ redoStack = <<>>
    /\ originalFileName = ""

\* C7: when loading a document fails, the editor is left entirely in its
\* previous state or entirely in the empty state: nothing of the new document
\* (handles, page count, page order, annotation lists, history reset, file
\* name) has been applied.
FailedLoadAppliesNothing ==
    [][LoadFailed =>
          \/ UNCHANGED <<pdfDoc, pdfLibDoc, totalPages, pageOrder, annotations,
                         undoStack, redoStack, originalFileName>>
          \/ EmptyEditor']_vars

----------------------------------------------------------------------------
\* Properties of the rasterization session (SpecRender).

InFlight(surface) ==
    {t \in Reqs : tasks[t].status = "running" /\ tasks[t].surface = surface}

\* C8: a new rasterization for a surface cancels the one still in flight for
\* that surface before it starts, so that under any interleaving of render
\* requests at most one rasterization per surface is in flight.
OneInFlightPerSurface ==
    \A surface \in Surfaces : Cardinality(InFlight(surface)) <= 1

\* Request r is no longer the current request of its surface: a later request
\* for the same surface has been made.
Superseded(r) ==
    \E q \in Reqs : q > r /\ reqs[q].pc # "new" /\ reqs[q].surface = reqs[r].surface

\* C9: a rasterization request that finishes (normally, by cancellation or by
\* error) when it is no longer the current request of its surface has no
\* effect on shared state: it paints no annotations and neither clears nor
\* replaces the task handle of the newer request.
StaleFinishHasNoEffect ==
    [][\A r \in Reqs :
          (reqs[r].pc # "finished" /\ reqs'[r].pc = "finished" /\ Superseded(r)) =>
            /\ painted' = painted
            /\ pdfRenderTask' = pdfRenderTask \/ pdfRenderTask \in {0, r}
            /\ \A c \in ThumbCanvases :
                  \/ thumbnailRenderTasks'[c] = thumbnailRenderTasks[c]
                  \/ thumbnailRenderTasks[c] \in {0, r}]_vars

----------------------------------------------------------------------------
\* SpecSelect: a session that selects.  Files are opened, text is typed,
\* finalized and cancelled, images are placed, annotations and pages
\* are deleted with the Delete key, commits are undone and redone, pages are
\* visited, dropped and deleted, tools and tabs are switched.  The record of
\* commits is not kept.

SelFiles == EditFiles \cup {[name |-> "bad", valid |-> FALSE, pages |-> <<>>]}
SelTexts == {<<"a">>}
SelTabs == {"edit", "organize"}

SelHistRoom == Len(undoStack) < MaxSelHist

SelOpenFile ==
    \E file \in SelFiles : onFileSelected(file) /\ GhostKeep

SelTextInput ==
    \E text \in SelTexts : onTextInput(text) /\ GhostKeep

SelFinalizeText ==
    IF isEditingText /\ textEditingState # <<>>
       /\ Trim(textEditingState[1].text) # <<>>
    THEN SelHistRoom /\ finalizeTextAnnotation /\ GhostKeep
    ELSE finalizeTextAnnotation /\ GhostKeep

SelImageSelected ==
    \E img \in Images : SelHistRoom /\ onImageSelected(img) /\ GhostKeep

\* The Delete key: an answer is drawn only when confirm() is asked.
SelDeleteKey ==
    \E answer \in BOOLEAN :
        /\ IF selectedAnnotationIndex > -1 THEN SelHistRoom /\ answer
           ELSE HasAnnotations \/ answer
        /\ onDeleteKeyPressed(answer, "none") /\ GhostKeep

SelSelectTab ==
    \E tab \in SelTabs : selectTab(tab) /\ GhostKeep

SelDrop ==
    \E dragIndex \in 0..1, dropIndex \in 0..2 :
        /\ activeTab = "organize" /\ pdfDoc.loaded
        /\ dragIndex < Len(pageOrder) /\ dropIndex <= Len(pageOrder)
        /\ onDrop(dragIndex, dropIndex) /\ GhostKeep

SelDeletePage ==
    \E num \in 1..2, answer \in BOOLEAN :
        /\ activeTab = "organize" /\ pdfDoc.loaded
        /\ num <= totalPages /\ (HasAnnotations \/ answer)
        /\ deletePage(num, answer, "none") /\ GhostKeep

NextSelect ==
    \/ SelOpenFile
    \/ MouseDown
    \/ DblClick
    \/ SelTextInput
    \/ SelFinalizeText
    \/ CancelText
    \/ SelImageSelected
    \/ SelDeleteKey
    \/ DocUndo
    \/ DocRedo
    \/ GoToPage
    \/ SelectTool
    \/ SelSelectTab
    \/ SelDrop
    \/ SelDeletePage

SpecSelect == Init /\ [][NextSelect]_vars

\* C11: in every reachable state selectedAnnotationIndex is -1 or an index
\* into the annotation list of the current page, the list at
\* pageOrder.indexOf(currentPageNum).
SelectionIsValid ==
    \/ selectedAnnotationIndex = -1
    \/ /\ pageIndexNow > -1
       /\ pageIndexNow < Len(annotations)
       /\ selectedAnnotationIndex \in
              0..(Len(annotations[pageIndexNow + 1]) - 1)

\* An annotation is selected on a page that was dragged to another position.
SelectionReached ==
    /\ selectedAnnotationIndex = 0
    /\ pageOrder = <<2, 1>>
    /\ pageIndexNow = 1

\* A page change, a tool change, an undo, a redo, or a structural page
\* operation that ran to its end.
ClearsSelection ==
    \/ \E num \in 1..2 : goToPage(num)
    \/ \E tool \in EditTools : selectTool(tool)
    \/ undo
    \/ redo
    \/ \E num \in 1..2, answer \in BOOLEAN :
          /\ totalPages > 1 /\ Proceeds(answer) /\ pdfLibDoc.loaded
          /\ deletePage(num, answer, "none")

----------------------------------------------------------------------------
\* SpecResize: a session that drags.  An image is placed on a page, grabbed
\* at its resize handle or its body, dragged and released.

\* Pointer positions: the bottom-right corner of a freshly placed image, two
\* points to its right, two far to its left, and the middle of its body.
ResizePtrs ==
    {[x |-> 2250, y |-> 1875], [x |-> 2252, y |-> 1875],
     [x |-> 2280, y |-> 1875], [x |-> 900, y |-> 1875],
     [x |-> 903, y |-> 1875], [x |-> 1500, y |-> 1500]}

ResOpenFile ==
    \E file \in EditFiles : ~pdfDoc.loaded /\ onFileSelected(file) /\ GhostKeep

ResImageSelected ==
    \E img \in Images : undoStack = <<>> /\ onImageSelected(img) /\ GhostKeep

\* An image is grabbed where it was placed: one that was dragged away is
\* left where it is.
Unmoved ==
    \A p \in 1..Len(annotations) : \A i \in 1..Len(annotations[p]) :
        \E img \in Images : /\ annotations[p][i].x = ImageAnn(img).x
                             /\ annotations[p][i].y = ImageAnn(img).y

ResMouseDown ==
    \E pos \in ResizePtrs :
        CanvasPresent /\ Unmoved /\ onMouseDown(pos) /\ GhostKeep

ResMouseMove ==
    \E pos \in ResizePtrs : CanvasPresent /\ onMouseMove(pos) /\ GhostKeep

ResMouseUp ==
    CanvasPresent /\ onMouseUp /\ GhostKeep

NextResize ==
    \/ ResOpenFile
    \/ ResImageSelected
    \/ ResMouseDown
    \/ ResMouseMove
    \/ ResMouseUp
    \/ DocUndo
    \/ DocRedo

SpecResize == Init /\ [][NextResize]_vars

\* The selected annotation of the current page, before and after a step.
SelectedAnn == annotations[pageIndexNow + 1][selectedAnnotationIndex + 1]
SelectedAnnAfter == annotations'[pageIndexNow + 1][selectedAnnotationIndex + 1]

\* A pointer-move of a drag of the selected image.
ImageDragged ==
    /\ dragMode # "none"
    /\ selectedAnnotationIndex > -1 /\ pageIndexNow > -1
    /\ SelectedAnn.type = "image"
    /\ \E pos \in ResizePtrs : onMouseMove(pos)

\* height = width * originalAspectRatio, to the unit of the model (a tenth of
\* a point).
Proportional(ann) ==
    LET d == ann.height * ann.originalAspectRatio.den
               - ann.width * ann.originalAspectRatio.num
    IN  d > -ann.originalAspectRatio.den /\ d < ann.originalAspectRatio.den

\* C13: after every pointer-move of a resize drag on an image the stored
\* height is the stored width times originalAspectRatio, and no pointer-move
\* of a move or resize drag changes originalAspectRatio.
ResizeKeepsAspectRatio ==
    [][ImageDragged =>
          /\ SelectedAnnAfter.originalAspectRatio
                = SelectedAnn.originalAspectRatio
          /\ dragMode = "resize" => Proportional(SelectedAnnAfter)]_vars

\* An image was resized to a width that is not the placed one, and the drag
\* goes on.
ResizeReached ==
    /\ dragMode = "resize"
    /\ selectedAnnotationIndex > -1 /\ pageIndexNow > -1
    /\ SelectedAnn.type = "image"
    /\ SelectedAnn.width = 1001
    /\ ENABLED ResMouseMove

\* The width a pointer-move of a resize drag asks for.
AskedWidth(pos) == dragStartAnn.width + (posUnscaledOf(pos).x - dragStartPos.x)

\* C14: a pointer-move of a resize drag whose resulting width (drag-start
\* width + dx) does not exceed 10 document units leaves the width and the
\* height of the image as they were.
SmallResizeIgnored ==
    [][\A pos \in ResizePtrs :
          (/\ dragMode = "resize"
           /\ selectedAnnotationIndex > -1 /\ pageIndexNow > -1
           /\ SelectedAnn.type = "image"
           /\ AskedWidth(pos) <= MinResizeWidth
           /\ onMouseMove(pos))
          => /\ SelectedAnnAfter.width = SelectedAnn.width
             /\ SelectedAnnAfter.height = SelectedAnn.height]_vars

\* A resize drag that has already changed the image is asked for a width of
\* exactly 10 units.
SmallResizeReached ==
    /\ dragMode = "resize"
    /\ selectedAnnotationIndex > -1 /\ pageIndexNow > -1
    /\ SelectedAnn.type = "image"
    /\ SelectedAnn.width # dragStartAnn.width
    /\ \E pos \in ResizePtrs :
          /\ AskedWidth(pos) = MinResizeWidth
          /\ ENABLED (onMouseMove(pos) /\ GhostKeep)

----------------------------------------------------------------------------
\* SpecText: a session that types.  A text box is opened on the page or on an
\* existing text, filled with text that may be blank, and finalized or
\* cancelled; commits are undone and redone.

TypedTexts == {<<>>, <<" ">>, <<" ", "\n">>, <<"a">>, <<" ", "a", " ">>}

TypeText ==
    \E text \in TypedTexts : onTextInput(text) /\ GhostKeep

NextText ==
    \/ ResOpenFile
    \/ MouseDown
    \/ DblClick
    \/ TypeText
    \/ SelFinalizeText
    \/ CancelText
    \/ SelectTool
    \/ GoToPage
    \/ DocUndo
    \/ DocRedo

SpecText == Init /\ [][NextText]_vars

\* A text edit whose buffer is empty or blank is finalized, or a text edit is
\* cancelled.
EndsWithoutText ==
    /\ isEditingText
    /\ \/ /\ textEditingState # <<>>
          /\ Trim(textEditingState[1].text) = <<>>
          /\ finalizeTextAnnotation
       \/ cancelTextAnnotation

\* C16: finalizing a text edit whose buffer is empty or whitespace-only, and
\* cancelling a text edit, both end the editing with the annotation lists,
\* the undo stack and the redo stack unchanged.
BlankTextLeavesNoTrace ==
    [][EndsWithoutText =>
          /\ ~isEditingText' /\ textEditingState' = <<>>
          /\ UNCHANGED <<annotations, undoStack, redoStack>>]_vars

\* Whitespace was typed over an existing text while a commit can be undone
\* and another redone, and the edit can be finalized.
BlankTextReached ==
    /\ isEditingText /\ textEditingState # <<>>
    /\ Len(textEditingState[1].text) = 2
    /\ Trim(textEditingState[1].text) = <<>>
    /\ EditsInPlace
    /\ undoStack # <<>> /\ redoStack # <<>>
    /\ ENABLED (SelFinalizeText /\ EndsWithoutText)

\* A page deletion is asked for: deletePage is called, or the Delete or
\* Backspace key is pressed with no annotation selected.
PageDeletionAsked ==
    \/ \E num \in 1..2, answer \in BOOLEAN : deletePage(num, answer, "none")
    \/ /\ selectedAnnotationIndex = -1
       /\ \E answer \in BOOLEAN : onDeleteKeyPressed(answer, "none")

----------------------------------------------------------------------------
\* SpecExport: exports of an annotated document.  The session starts with a
\* two-page document on which text was typed, images were placed and lines
\* were drawn, one commit after the other; pages are visited and dropped, and
\* the document is exported, with or without a password, once.

\* (10, 10), (20, 10), (20, 20) in points, as onMouseDown and onMouseMove
\* collect them from the pointer.
ExportPtrs == <<[x |-> 150, y |-> 150], [x |-> 300, y |-> 150],
                [x |-> 300, y |-> 300]>>
DrawnPath == [k \in 1..3 |-> posUnscaledOf(ExportPtrs[k])]

\* What a commit appends: a text typed at the first pointer position, an
\* image, a line through the three positions, a line through the first two.
Committed ==
    {NewText([x |-> ExportPtrs[1].x, y |-> ExportPtrs[1].y,
              width |-> NewTextBoxWidth * 10, text |-> <<"a">>],
             [font |-> "Helvetica", size |-> DefaultTextSize,
              color |-> "#000000", bold |-> FALSE]),
     ImageAnn([imageData |-> "img1", width |-> 150, height |-> 75]),
     DrawAnn(DrawnPath),
     DrawAnn(SubSeq(DrawnPath, 1, 2))}

\* The commits of a session: at most MaxExportAnns, each on page 1 or 2.
Plans ==
    UNION {[1..k -> {1, 2} \X Committed] : k \in 0..MaxExportAnns}

\* The model and the undo stack after the first k commits of a plan: each is
\* an addAnnotation on the page visited.
RECURSIVE Carried(_, _)
Carried(plan, k) ==
    IF k = 0
    THEN [annotations |-> <<<<>>, <<>>>>, undoStack |-> <<>>]
    ELSE LET before == Carried(plan, k - 1) IN
         [annotations |-> [before.annotations EXCEPT
                             ![plan[k][1]] = Append(@, plan[k][2])],
          undoStack |-> Append(before.undoStack,
                               JsonClone(before.annotations))]

InitExport ==
    /\ scale = DefaultScale
    /\ \E plan \in Plans :
            /\ pdfDoc = DocOf(FreshPages(2)) /\ pdfLibDoc = DocOf(FreshPages(2))
            /\ currentPageNum = 1 /\ totalPages = 2
            /\ originalFileName = "a"
            /\ activeTab = "organize" /\ activeTool = "select"
            /\ isSaving = FALSE
            /\ pageOrder = <<1, 2>>
            /\ annotations = Carried(plan, Len(plan)).annotations
            /\ isDrawing = FALSE /\ currentDrawingPath = <<>>
            /\ isEditingText = FALSE /\ textEditingState = <<>>
            /\ textSettings = [font |-> "Helvetica", size |-> DefaultTextSize,
                           color |-> "#000000", bold |-> FALSE]
            /\ selectedAnnotationIndex = -1
            /\ dragMode = "none"
            /\ dragStartPos = [x |-> 0, y |-> 0]
            /\ dragStartAnn = [x |-> 0, y |-> 0, width |-> 0, height |-> 0]
            /\ undoStack = Carried(plan, Len(plan)).undoStack /\ redoStack = <<>>
            /\ pdfRenderTask = 0
            /\ thumbnailRenderTasks = [c \in ThumbCanvases |-> 0]
            /\ tasks = NoTasks /\ reqs = NoReqs /\ painted = {}
            /\ gLog = <<>> /\ gPhase = "void" /\ gUndos = 0 /\ gRedos = 0
            /\ download = <<>> /\ running = {}

Passwords == {<<>>, <<"p">>, <<"q">>}
PageNumberInputs == {[visible |-> v, startPage |-> 1] : v \in BOOLEAN}
WatermarkInputs == {[visible |-> TRUE, text |-> <<"w">>],
                    [visible |-> TRUE, text |-> <<>>],
                    [visible |-> FALSE, text |-> <<"w">>]}

\* Nothing was exported yet.
Editing == download = <<>>

ExpGoToPage == Editing /\ GoToPage

ExpDrop ==
    \E dragIndex \in 0..1, dropIndex \in 0..2 :
        Editing /\ onDrop(dragIndex, dropIndex) /\ GhostKeep

ExpSave ==
    \E settings \in PageNumberInputs, watermark \in WatermarkInputs,
       canEncrypt \in BOOLEAN, ok \in BOOLEAN :
        /\ Editing
        /\ savePdf(<<>>, settings, watermark, canEncrypt, ok)
        /\ UNCHANGED <<gLog, gPhase, gUndos, gRedos, running>>

ExpSaveWithPassword ==
    \E pw \in Passwords, confirmPw \in Passwords,
       settings \in PageNumberInputs, watermark \in WatermarkInputs,
       canEncrypt \in BOOLEAN, ok \in BOOLEAN :
        /\ Editing
        /\ applyPasswordAndSave(pw, confirmPw, settings, watermark,
                                canEncrypt, ok)
        /\ UNCHANGED <<gLog, gPhase, gUndos, gRedos, running>>

NextExport ==
    \/ ExpGoToPage
    \/ ExpDrop
    \/ ExpSave
    \/ ExpSaveWithPassword

SpecExport == InitExport /\ [][NextExport]_vars

\* A step that hands a file to the browser.
Exports == download = <<>> /\ download' # <<>>

\* The operations the annotations of list i added to exported page i: the
\* last Len(annotations[i]) operations of the page.
AnnotationOps(i) ==
    LET ops == download'[1].pages[i].ops
    IN  SubSeq(ops, Len(ops) - Len(annotations[i]) + 1, Len(ops))

\* The height taken off a flipped y: the font size of a text (points, here in
\* tenths), the height of an image.
ElementHeight(ann) == IF ann.type = "text" THEN ann.size * 10 ELSE ann.height

\* C15: on export a text or image annotation is placed at
\* y = pageHeight - y_stored - h (h the font size of a text, the height of an
\* image) with x unchanged, and every point of a draw path at
\* (x, pageHeight - y); the path (10,10), (20,10), (20,20) on a page 100 units
\* tall exports as (10,90), (20,90), (20,80).
ExportFlipsY ==
    [][Exports =>
          /\ \A i \in 1..Len(annotations) : \A k \in 1..Len(annotations[i]) :
                LET ann == annotations[i][k]
                    op  == AnnotationOps(i)[k]
                IN  IF ann.type = "draw"
                    THEN /\ Len(op.path) = Len(ann.path)
                         /\ \A j \in 1..Len(ann.path) :
                               /\ op.path[j].x = ann.path[j].x
                               /\ op.path[j].y = PageSize.height - ann.path[j].y
                    ELSE /\ op.x = ann.x
                         /\ op.y = PageSize.height - ann.y - ElementHeight(ann)
          /\ DrawnPath = <<[x |-> 100, y |-> 100], [x |-> 200, y |-> 100],
                           [x |-> 200, y |-> 200]>>
          /\ ExportedAnn(DrawAnn(DrawnPath), 1000).path
                = <<[x |-> 100, y |-> 900], [x |-> 200, y |-> 900],
                    [x |-> 200, y |-> 800]>>]_vars

\* A file was exported whose second page carries a text and the line through
\* the three points.
ExportFlipsYReached ==
    /\ download # <<>>
    /\ \E j, k \in 1..Len(download[1].pages[2].ops) :
          /\ download[1].pages[2].ops[j].kind = "text"
          /\ download[1].pages[2].ops[k].kind = "draw"
          /\ Len(download[1].pages[2].ops[k].path) = 3

DecorationKinds == {"pageNumber", "watermark"}

IsAnnotationOp(op) == op.kind \notin DecorationKinds

\* Operation op draws annotation ann.
Renders(op, ann) ==
    /\ op.kind = ann.type
    /\ CASE ann.type = "text"  -> op.text = ann.text /\ op.x = ann.x
         [] ann.type = "image" -> op.image = ann.imageData /\ op.x = ann.x
         [] ann.type = "draw"  -> Len(op.path) = Len(ann.path)

\* C19: the exported document has, at each position i of the page order, a
\* copy of source page pageOrder[i] that receives the annotations of list i;
\* on each page the page number and the watermark are drawn before any
\* annotation, and the annotations in the order of the list.
ExportFollowsOrder ==
    [][Exports =>
          LET pages == download'[1].pages IN
          /\ Len(pages) = Len(pageOrder)
          /\ \A i \in 1..Len(pages) :
                LET ops == pages[i].ops
                    drawn == SelectSeq(ops, IsAnnotationOp)
                IN  /\ pages[i].page = pdfLibDoc.pages[pageOrder[i]]
                    /\ \A j, k \in 1..Len(ops) :
                          (j < k /\ IsAnnotationOp(ops[j]))
                             => IsAnnotationOp(ops[k])
                    /\ Len(drawn) = Len(annotations[i])
                    /\ \A k \in 1..Len(drawn) :
                          Renders(drawn[k], annotations[i][k])]_vars

\* A file was exported after the pages were swapped: its first page is a
\* copy of source page 2 and carries a page number, a watermark and two
\* annotations of different kinds; its second page carries no annotation.
ExportFollowsOrderReached ==
    /\ download # <<>> /\ pageOrder = <<2, 1>>
    /\ download[1].pages[1].page.src = 2
    /\ Len(download[1].pages[1].ops) = 4
    /\ download[1].pages[1].ops[1].kind = "pageNumber"
    /\ download[1].pages[1].ops[2].kind = "watermark"
    /\ download[1].pages[1].ops[3].kind # download[1].pages[1].ops[4].kind
    /\ Len(download[1].pages[2].ops) = 2

\* C20: the name of the exported file is the original name plus a fixed
\* suffix that tells its state: the protected suffix exactly when the
\* exported document was encrypted with the password, the edited suffix
\* otherwise.
SuffixTellsProtection ==
    download # <<>> =>
        /\ download[1].name[1] = originalFileName
        /\ download[1].name[2] =
              IF download[1].encrypted THEN ProtectedSuffix ELSE EditedSuffix

----------------------------------------------------------------------------
\* The busy flag.  The asynchronous handlers are taken one await at a time:
\* a run that is waiting is a record [id, op, pc, ...] of `running`, and
\* other handlers may start or resume while it waits.

MaxRuns == 3         \* handler runs waiting at the same time

FreeIds == (1..MaxRuns) \ {run.id : run \in running}

\* The controls of the template that start a load or an export are disabled
\* while the busy flag is set.
OpenEnabled == ~isSaving
SaveEnabled == ~isSaving

\* loadPdf up to `await Promise.all(...)`.
loadPdfBegin ==
    /\ isSaving' = TRUE
    /\ tasks' = Cancelled(tasks, pdfRenderTask)
    /\ pdfDoc' = NullDoc
    /\ pdfLibDoc' = NullDoc

\* onFileSelected up to the await of loadPdf: the name is set, the buffer
\* is read and loadPdf begins.
onFileSelectedBegin(file, id) ==
    /\ originalFileName' = file.name
    /\ loadPdfBegin
    /\ running' = running \cup {[id |-> id, op |-> "onFileSelected",
                                 pc |-> "load", bytes |-> file.pages,
                                 pageToLoad |-> 1, oks |-> {file.valid}]}
    /\ UNCHANGED <<currentPageNum, totalPages, pageOrder, uiVars, gestVars,
                   textVars, histVars, pdfRenderTask, thumbnailRenderTasks,
                   reqs, painted, annotations, selectedAnnotationIndex,
                   download>>

\* loadPdf from the end of its await to its return, and the caller's
\* `finally` after it; no render task is pending in these runs, so the
\* cancellation loadPdf began with has nothing left to cancel.
loadPdfEnd(run, ok) ==
    /\ loadPdf(run.bytes, TRUE, run.pageToLoad, ok)
    /\ running' = running \ {run}
    /\ UNCHANGED <<originalFileName, uiVars, gestVars, textVars,
                   pdfRenderTask, thumbnailRenderTasks, reqs, painted,
                   download>>

\* deletePage up to `await pdfLibDoc.save()`: removePage changes the
\* mutator's document in place; when it throws, catch and finally run at once.
deletePageBegin(pageNumToDelete, answer, id) ==
    /\ IF totalPages > 1 /\ Proceeds(answer) /\ pdfLibDoc.loaded
       THEN IF pageNumToDelete \in 1..Len(pdfLibDoc.pages)
            THEN LET rest == SpliceOut(pdfLibDoc.pages,
                                       pageNumToDelete - 1).rest
                 IN /\ isSaving' = TRUE
                    /\ pdfLibDoc' = DocOf(rest)
                    /\ running' = running \cup
                          {[id |-> id, op |-> "deletePage", pc |-> "save",
                            bytes |-> rest,
                            pageToLoad |-> Min(pageNumToDelete, Len(rest)),
                            oks |-> BOOLEAN]}
            ELSE /\ isSaving' = FALSE
                 /\ UNCHANGED <<pdfLibDoc, running>>
       ELSE UNCHANGED <<isSaving, pdfLibDoc, running>>
    /\ UNCHANGED <<pdfDoc, currentPageNum, totalPages, originalFileName,
                   pageOrder, uiVars, gestVars, textVars, histVars,
                   renderVars, annotations, selectedAnnotationIndex,
                   download>>

\* deletePage from the end of `await pdfLibDoc.save()`: loadPdf begins on
\* the saved bytes, or save() rejected and catch and finally run.
deletePageSaved(run, ok) ==
    /\ IF ok
       THEN /\ loadPdfBegin
            /\ running' = (running \ {run}) \cup {[run EXCEPT !.pc = "load"]}
       ELSE /\ isSaving' = FALSE
            /\ running' = running \ {run}
            /\ UNCHANGED <<pdfDoc, pdfLibDoc, tasks>>
    /\ UNCHANGED <<currentPageNum, totalPages, originalFileName, pageOrder,
                   uiVars, gestVars, textVars, histVars, pdfRenderTask,
                   thumbnailRenderTasks, reqs, painted, annotations,
                   selectedAnnotationIndex, download>>

\* savePdf up to `await newPdfDoc.save()`: the pages are copied and drawn
\* on; when copyPages rejects, catch and finally run at once.
savePdfBegin(password, settings, watermark, canEncrypt, id) ==
    /\ IF ~pdfLibDoc.loaded
       THEN UNCHANGED <<isSaving, running>>
       ELSE IF \A i \in 1..Len(pageOrder) :
                  pageOrder[i] \in 1..Len(pdfLibDoc.pages)
            THEN /\ isSaving' = TRUE
                 /\ running' = running \cup
                       {[id |-> id, op |-> "savePdf", pc |-> "save",
                         file |-> ExportedFile(password, settings, watermark,
                                               canEncrypt)]}
            ELSE /\ isSaving' = FALSE
                 /\ UNCHANGED running
    /\ UNCHANGED <<pdfDoc, pdfLibDoc, currentPageNum, totalPages,
                   originalFileName, pageOrder, uiVars, gestVars, textVars,
                   histVars, renderVars, annotations, selectedAnnotationIndex,
                   download>>

\* savePdf from the end of `await newPdfDoc.save()`: the file is handed
\* over unless save() rejected, and finally clears the flag.
savePdfEnd(run, ok) ==
    /\ download' = IF ok THEN <<run.file>> ELSE download
    /\ isSaving' = FALSE
    /\ running' = running \ {run}
    /\ UNCHANGED <<pdfDoc, pdfLibDoc, currentPageNum, totalPages,
                   originalFileName, pageOrder, uiVars, gestVars, textVars,
                   histVars, renderVars, annotations, selectedAnnotationIndex>>

BusyFiles == {[name |-> "a", valid |-> TRUE, pages |-> FreshPages(3)]}

GhostRest == UNCHANGED <<gLog, gPhase, gUndos, gRedos>>

\* The file input of the template.
BusyOpenFile ==
    \E file \in BusyFiles, id \in FreeIds :
        OpenEnabled /\ onFileSelectedBegin(file, id) /\ GhostRest

\* The save button of the template.
BusySave ==
    \E id \in FreeIds :
        /\ SaveEnabled /\ pdfLibDoc.loaded
        /\ savePdfBegin(<<>>, [visible |-> FALSE, startPage |-> 1],
                        [visible |-> FALSE, text |-> <<>>], TRUE, id)
        /\ GhostRest

\* The Delete and Backspace keys of the window, which the component binds
\* itself: onDeleteKeyPressed with no annotation selected.
BusyDeleteKey ==
    \E id \in FreeIds :
        /\ selectedAnnotationIndex = -1
        /\ activeTab = "organize" /\ pdfDoc.loaded /\ totalPages > 1
        /\ deletePageBegin(currentPageNum, TRUE, id)
        /\ GhostRest

BusySelectTab ==
    \E tab \in {"edit", "organize"} :
        activeTab # tab /\ selectTab(tab) /\ GhostKeep

BusySaved ==
    \E run \in running, ok \in BOOLEAN :
        /\ run.pc = "save"
        /\ IF run.op = "savePdf" THEN savePdfEnd(run, ok)
                                 ELSE deletePageSaved(run, ok)
        /\ GhostRest

BusyLoaded ==
    \E run \in running :
        /\ run.pc = "load"
        /\ \E ok \in run.oks : loadPdfEnd(run, ok)
        /\ GhostRest

NextBusy ==
    \/ BusyOpenFile
    \/ BusySave
    \/ BusyDeleteKey
    \/ BusySelectTab
    \/ BusySaved
    \/ BusyLoaded

SpecBusy == Init /\ [][NextBusy]_vars

\* The runs of loadPdf and of savePdf that have begun and not returned.
Loading == {run \in running : run.pc = "load"}
Exporting == {run \in running : run.op = "savePdf"}

\* C18: while a load or an export is in progress, the busy flag set,
\* triggering the same operation again starts no second run of it that
\* overlaps the first: at most one run of loadPdf and at most one run of
\* savePdf have begun and not returned.
NoOverlappingRun ==
    /\ Cardinality(Loading) <= 1
    /\ Cardinality(Exporting) <= 1

----------------------------------------------------------------------------
\* SpecZoom: a session that zooms.  The document carries up to MaxExportAnns
\* committed annotations of every kind; the view is zoomed in, out and fitted
\* to two viewers, pages are visited and reordered.

ZoomContainers == {[clientWidth |-> 2320, clientHeight |-> 3320],
                   [clientWidth |-> 5320, clientHeight |-> 1320]}

ZoomIn == zoomIn /\ GhostKeep

ZoomOut == zoomOut /\ GhostKeep

FitToPage ==
    \E container \in ZoomContainers, ok \in BOOLEAN :
        fitToPage(container, ok) /\ GhostKeep

NextZoom ==
    \/ ZoomIn
    \/ ZoomOut
    \/ FitToPage
    \/ ExpGoToPage
    \/ ExpDrop

SpecZoom == InitExport /\ [][NextZoom]_vars

\* A step of one of the three zoom handlers.
Zooms ==
    \/ zoomIn
    \/ zoomOut
    \/ \E container \in ZoomContainers, ok \in BOOLEAN :
          fitToPage(container, ok)

\* C21: zoomIn, zoomOut and fitToPage change only the zoom factor: the
\* stored geometry of every annotation, the history stacks and the page
\* order are as they were, after any sequence of zoom changes.
ZoomKeepsGeometry ==
    [][Zooms => UNCHANGED <<annotations, histVars, pageOrder, docVars,
                            activeTab, activeTool, gestVars, textVars,
                            selectedAnnotationIndex>>]_vars

\* The view was zoomed to the upper limit over a reordered document whose
\* first page carries a text and a line and whose history holds two entries.
ZoomReached ==
    /\ scale = MaxScale /\ pageOrder = <<2, 1>>
    /\ Len(annotations[1]) = 2 /\ Len(undoStack) = 2
    /\ annotations[1][1].type = "text" /\ annotations[1][2].type = "draw"
    /\ Len(annotations[1][2].path) = 3

----------------------------------------------------------------------------
\* SpecAttach: a reordering session with history.  A two-page file is
\* opened; images named after the page shown are placed, pages are dragged
\* and dropped and visited, and commits are undone and redone.

AttachImage ==
    /\ Len(undoStack) < MaxSelHist
    /\ onImageSelected(PageImage(currentPageNum))
    /\ GhostKeep

NextAttach ==
    \/ ResOpenFile
    \/ OrderDrop
    \/ OrderGoToPage
    \/ AttachImage
    \/ DocUndo
    \/ DocRedo

SpecAttach == Init /\ [][NextAttach]_vars

\* C22: after add, reorder, undo and redo in any order every annotation is
\* still attached to the page it was created on: the list at each position
\* of the model holds only annotations made on the page that the page order
\* has at that position.
AnnotationsStayAttached ==
    \A p \in 1..Len(annotations) : \A i \in 1..Len(annotations[p]) :
        p <= Len(pageOrder) /\ annotations[p][i].imageData = pageOrder[p]

----------------------------------------------------------------------------
\* SpecEdit: a session that edits text.  A two-page file is opened; texts are
\* typed at two places of a page, the second place inside the box of a text
\* typed at the first; texts are opened again by double-click, retyped and
\* committed or cancelled; the Delete key is pressed, tools are chosen,
\* pages are visited, commits are undone and redone.

\* Pointer positions: the corner of the page and a point 4 points off it.
EditPtrs == {[x |-> 0, y |-> 0], [x |-> 60, y |-> 60]}

\* Where nothing is: the far corner of the page.
FarPtr == [x |-> 2900, y |-> 2900]

EditMouseDown ==
    \E pos \in EditPtrs : CanvasPresent /\ onMouseDown(pos) /\ GhostKeep

EditDblClick ==
    \E pos \in EditPtrs \cup {FarPtr} :
        CanvasPresent /\ onDblClick(pos) /\ GhostKeep

EditDeleteKey ==
    /\ CanvasPresent /\ SelHistRoom
    /\ onDeleteKeyPressed(TRUE, "none")
    /\ GhostKeep

NextEdit ==
    \/ ResOpenFile
    \/ EditMouseDown
    \/ EditDblClick
    \/ TextInput
    \/ SelFinalizeText
    \/ CancelText
    \/ EditDeleteKey
    \/ SelectTool
    \/ GoToPage
    \/ DocUndo
    \/ DocRedo

SpecEdit == Init /\ [][NextEdit]_vars

\* A Delete or Backspace key event: the window listeners call the handler
\* wherever the focus is.
DeleteKeyPressed ==
    \E answer \in BOOLEAN, fail \in Fails : onDeleteKeyPressed(answer, fail)

\* C23: while a text is edited, a Delete or Backspace key event leaves the
\* annotation lists and both history stacks as they were, also when the edit
\* was opened by double-click on a text, which is then selected.
DeleteKeySparesEditedText ==
    [][(isEditingText /\ DeleteKeyPressed)
          => UNCHANGED <<annotations, histVars>>]_vars


\* The text box that is open was opened by double-click on a text: it is as
\* wide as that text plus 20 pixels, and no text of a session is 130 pixels
\* wide, which would give the NewTextBoxWidth of a box opened on the canvas.
OpenedOnAnnotation ==
    /\ isEditingText /\ textEditingState # <<>>
    /\ textEditingState[1].width # NewTextBoxWidth * 10

\* The text at index i (from 1) of list p is the one the open box is
\* anchored on.
AnchoredOn(p, i) ==
    /\ annotations[p][i].type = "text"
    /\ ToPixels(annotations[p][i].x) = textEditingState[1].x
    /\ ToPixels(annotations[p][i].y) = textEditingState[1].y

\* The text box holds more than white space.
HoldsText ==
    /\ isEditingText /\ textEditingState # <<>>
    /\ Trim(textEditingState[1].text) # <<>>

\* C29: a text edit opened by double-click on a text never increases the
\* number of annotations of any page when it is committed, whatever was
\* done between the double-click and the commit.
EditAddsNoAnnotation ==
    [][(finalizeTextAnnotation /\ OpenedOnAnnotation)
          => \A p \in DOMAIN annotations :
                Len(annotations'[p]) <= Len(annotations[p])]_vars

\* C28: the commit of a non-empty text edit opened on a text replaces that
\* text in place (same page, same index, same x and y, no list changes its
\* length; text, style and box are the new ones; one history entry), and the
\* commit of an edit opened on the canvas appends exactly one text at the
\* anchor to the page shown, with one history entry.
CommitReplacesOrAppends ==
    [][(finalizeTextAnnotation /\ HoldsText)
          => /\ undoStack' = Append(undoStack, annotations)
             /\ LET state == textEditingState[1]
                    m == measureText(state.text, textSettings)
                IN IF OpenedOnAnnotation
                   THEN \E p \in DOMAIN annotations :
                        \E i \in DOMAIN annotations[p] :
                           /\ AnchoredOn(p, i)
                           /\ annotations' =
                                [annotations EXCEPT ![p][i] =
                                    [@ EXCEPT !.text = Trim(state.text),
                                              !.font = textSettings.font,
                                              !.size = textSettings.size,
                                              !.color = textSettings.color,
                                              !.bold = textSettings.bold,
                                              !.width = m.width,
                                              !.height = m.height]]
                   ELSE /\ pageIndexNow > -1
                        /\ Len(annotations'[pageIndexNow + 1])
                              = Len(annotations[pageIndexNow + 1]) + 1
                        /\ \A p \in DOMAIN annotations :
                              SubSeq(annotations'[p], 1, Len(annotations[p]))
                                 = annotations[p]
                        /\ LET new == annotations'[pageIndexNow + 1]
                                         [Len(annotations[pageIndexNow + 1]) + 1]
                           IN /\ new.type = "text"
                              /\ new.text = Trim(state.text)
                              /\ new.x = ToDoc(state.x)
                              /\ new.y = ToDoc(state.y)]_vars

\* C30: a double-click on the body of a text, the topmost first, opens the
\* text box seeded with that text and sets the text settings to its font,
\* size, color and bold flag; its index becomes the selection, and the paint
\* of the annotations skips it until the edit ends; a double-click that hits
\* no text changes nothing.
DblClickOpensText ==
    /\ [](OpenedOnAnnotation
            => \A i \in drawAnnotations : ~AnchoredOn(pageIndexNow + 1, i + 1))
    /\ [][\A pos \in EditPtrs \cup {FarPtr} :
            onDblClick(pos) =>
              LET pageAnns == annotations[pageIndexNow + 1]
                  hits == {i \in 1..Len(pageAnns) :
                             /\ pageAnns[i].type = "text"
                             /\ InRect(posUnscaledOf(pos), pageAnns[i].x,
                                       pageAnns[i].y, pageAnns[i].width,
                                       pageAnns[i].height)}
              IN IF hits = {} THEN UNCHANGED vars
                 ELSE \E i \in hits :
                         /\ \A j \in hits : j <= i
                         /\ isEditingText'
                         /\ textEditingState'[1].text = pageAnns[i].text
                         /\ textSettings' = settingsOf(pageAnns[i])
                         /\ selectedAnnotationIndex' = i - 1
                         /\ (i - 1) \notin drawAnnotations']_vars

----------------------------------------------------------------------------
\* SpecPointer: a session of pointer gestures.  It starts where a two-page
\* file was opened and a text and twice the same image were committed on
\* page 1 and a text on page 2; the pointer is pressed, moved and released
\* with each of the tools, lines are drawn, pages are visited.

PointerPlan ==
    LET text == NewText([x |-> ExportPtrs[1].x, y |-> ExportPtrs[1].y,
                         width |-> NewTextBoxWidth * 10, text |-> <<"a">>],
                        [font |-> "Helvetica", size |-> DefaultTextSize,
                         color |-> "#000000", bold |-> FALSE])
        image == ImageAnn([imageData |-> "img1", width |-> 150,
                           height |-> 75])
    IN <<<<1, text>>, <<1, image>>, <<1, image>>, <<2, text>>>>

InitPointer ==
    /\ scale = DefaultScale
    /\ pdfDoc = DocOf(FreshPages(2)) /\ pdfLibDoc = DocOf(FreshPages(2))
    /\ currentPageNum = 1 /\ totalPages = 2
    /\ originalFileName = "a"
    /\ activeTab = "edit" /\ activeTool = "select"
    /\ isSaving = FALSE
    /\ pageOrder = <<1, 2>>
    /\ annotations = Carried(PointerPlan, Len(PointerPlan)).annotations
    /\ isDrawing = FALSE /\ currentDrawingPath = <<>>
    /\ isEditingText = FALSE /\ textEditingState = <<>>
    /\ textSettings = [font |-> "Helvetica", size |-> DefaultTextSize,
                       color |-> "#000000", bold |-> FALSE]
    /\ selectedAnnotationIndex = -1
    /\ dragMode = "none"
    /\ dragStartPos = [x |-> 0, y |-> 0]
    /\ dragStartAnn = [x |-> 0, y |-> 0, width |-> 0, height |-> 0]
    /\ undoStack = Carried(PointerPlan, Len(PointerPlan)).undoStack
    /\ redoStack = <<>>
    /\ pdfRenderTask = 0
    /\ thumbnailRenderTasks = [c \in ThumbCanvases |-> 0]
    /\ tasks = NoTasks /\ reqs = NoReqs /\ painted = {}
    /\ gLog = <<>> /\ gPhase = "void" /\ gUndos = 0 /\ gRedos = 0
    /\ download = <<>> /\ running = {}

\* Pointer positions: the corner of the text, the bottom-right corner of the
\* images, the middle of their body, a point right of their corner, and a
\* point where neither a text nor an image is.
PointerPtrs ==
    {[x |-> 150, y |-> 150], [x |-> 2250, y |-> 1875],
     [x |-> 1500, y |-> 1500], [x |-> 2280, y |-> 1875],
     [x |-> 300, y |-> 300]}

PointerTools == {"select", "text", "draw"}

\* Nothing was dragged or drawn yet: a document that a gesture has changed
\* is left as it is.
AtRest == annotations = Carried(PointerPlan, Len(PointerPlan)).annotations

PtrMouseDown ==
    /\ CanvasPresent /\ AtRest
    /\ \E pos \in PointerPtrs : onMouseDown(pos)
    /\ GhostKeep

PtrMouseMove ==
    \E pos \in PointerPtrs : CanvasPresent /\ onMouseMove(pos) /\ GhostKeep

PtrMouseUp == CanvasPresent /\ onMouseUp /\ GhostKeep

PtrSelectTool ==
    \E tool \in PointerTools : selectTool(tool) /\ GhostKeep

NextPointer ==
    \/ PtrMouseDown
    \/ PtrMouseMove
    \/ PtrMouseUp
    \/ PtrSelectTool
    \/ CancelText
    \/ GoToPage

SpecPointer == InitPointer /\ [][NextPointer]_vars


\* The page shown, its list, and the indices (from 1) of the texts and
\* images that hold a point of document space in their body, or, for an
\* image, in its handle.
ShownAnns == annotations[pageIndexNow + 1]

Holding(p) ==
    {i \in 1..Len(ShownAnns) :
        \/ /\ ShownAnns[i].type = "image"
           /\ InHandle(p, ShownAnns[i])
        \/ /\ ShownAnns[i].type \in {"text", "image"}
           /\ InRect(p, ShownAnns[i].x, ShownAnns[i].y, ShownAnns[i].width,
                     ShownAnns[i].height)}

DocPoint(pos) == [x |-> (pos.x * 4) \div scale, y |-> (pos.y * 4) \div scale]

Idle == dragMode = "none" /\ ~isDrawing /\ ~isEditingText

\* C24: a pointer-down in the edit view hits the highest-index text or
\* image of the page shown whose handle (image only) or body holds the
\* pointer in document space; the handle is tested before the body and gives
\* the drag mode resize, the body move; the hit selects that index, sets the
\* tool to select and records the pointer position and the annotation's x,
\* y, width and height as the drag start.
PointerDownHits ==
    [][\A pos \in PointerPtrs :
          (onMouseDown(pos) /\ Holding(DocPoint(pos)) # {}) =>
             \E i \in Holding(DocPoint(pos)) :
                /\ \A j \in Holding(DocPoint(pos)) : j <= i
                /\ dragMode' =
                      IF /\ ShownAnns[i].type = "image"
                         /\ InHandle(DocPoint(pos), ShownAnns[i])
                      THEN "resize" ELSE "move"
                /\ selectedAnnotationIndex' = i - 1
                /\ activeTool' = "select"
                /\ dragStartPos' = DocPoint(pos)
                /\ dragStartAnn' = [x |-> ShownAnns[i].x, y |-> ShownAnns[i].y,
                                    width |-> ShownAnns[i].width,
                                    height |-> ShownAnns[i].height]
                /\ UNCHANGED <<annotations, histVars>>]_vars

\* The corner shared by the two images was pressed: the upper image is
\* selected for a resize, the tool is select and the drag start is recorded.
PointerDownHitsReached ==
    /\ dragMode = "resize" /\ selectedAnnotationIndex = 2
    /\ activeTool = "select" /\ AtRest
    /\ dragStartPos = [x |-> 1500, y |-> 1250]
    /\ dragStartAnn = [x |-> 500, y |-> 750, width |-> 1000, height |-> 500]

\* C25: a pointer-down in the idle state that hits nothing starts a line
\* whose path is exactly the click point in document space with the tool
\* draw, opens an empty text box anchored at the click point with the tool
\* text, and stays idle with the tool select; in all three cases the
\* selection is cleared and the annotation lists and the history are as
\* they were.
PointerDownMisses ==
    [][\A pos \in PointerPtrs :
          (onMouseDown(pos) /\ Idle /\ Holding(DocPoint(pos)) = {}) =>
             /\ selectedAnnotationIndex' = -1
             /\ UNCHANGED <<annotations, histVars, dragMode, activeTool>>
             /\ CASE activeTool = "draw" ->
                       /\ isDrawing' /\ ~isEditingText'
                       /\ currentDrawingPath' = <<DocPoint(pos)>>
                  [] activeTool = "text" ->
                       /\ isEditingText' /\ ~isDrawing'
                       /\ textEditingState' =
                             <<[x |-> pos.x, y |-> pos.y,
                                width |-> NewTextBoxWidth * 10,
                                text |-> <<>>]>>
                  [] OTHER ->
                       /\ ~isDrawing' /\ ~isEditingText'
                       /\ UNCHANGED <<currentDrawingPath,
                                      textEditingState>>]_vars

\* A line was begun on page 2 at the point where nothing is, with an
\* annotation of page 1 selected before.
PointerDownMissesReached ==
    /\ isDrawing /\ currentPageNum = 2 /\ selectedAnnotationIndex = -1
    /\ currentDrawingPath = <<[x |-> 200, y |-> 200]>>
    /\ AtRest

\* C26: a pointer-up or pointer-leave always returns to the idle state:
\* the drag mode is none and drawing has stopped; a path of at least 2
\* points is committed as exactly one new line appended to the page shown,
\* with one history entry; a shorter path is dropped with no annotation and
\* no history entry; so every stored line has at least 2 points.
PointerUpCommits ==
    /\ [](\A p \in 1..Len(annotations) : \A i \in 1..Len(annotations[p]) :
             annotations[p][i].type = "draw"
                => Len(annotations[p][i].path) >= 2)
    /\ [][onMouseUp =>
            /\ dragMode' = "none" /\ ~isDrawing' /\ currentDrawingPath' = <<>>
            /\ IF isDrawing /\ Len(currentDrawingPath) >= 2
               THEN /\ annotations' =
                         [annotations EXCEPT ![pageIndexNow + 1] =
                             Append(@, [type |-> "draw",
                                        path |-> currentDrawingPath,
                                        color |-> "red",
                                        lineWidth |-> [num |-> 8,
                                                       den |-> scale]])]
                    /\ undoStack' = Append(undoStack, annotations)
                    /\ redoStack' = <<>>
               ELSE UNCHANGED <<annotations, histVars>>]_vars

\* A line of two points was committed behind the three annotations of page
\* 1, and the history holds one entry more than before.
PointerUpCommitsReached ==
    /\ Len(annotations[1]) = 4 /\ annotations[1][4].type = "draw"
    /\ Len(annotations[1][4].path) = 2
    /\ Len(undoStack) = Len(PointerPlan) + 1
    /\ Idle

\* C27: while a text or an image is dragged in mode move, after every
\* pointer-move its position is its drag-start position plus the current
\* pointer minus the drag-start pointer, in document space, on both axes;
\* its width and height and every other annotation are as they were.  The
\* drag start is the place the annotation had when it was pressed.
MoveFollowsPointer ==
    /\ []((dragMode = "move" /\ selectedAnnotationIndex > -1) =>
            LET pressed == Carried(PointerPlan, Len(PointerPlan))
                              .annotations[pageIndexNow + 1]
                                          [selectedAnnotationIndex + 1]
            IN dragStartAnn = [x |-> pressed.x, y |-> pressed.y,
                               width |-> pressed.width,
                               height |-> pressed.height])
    /\ [][\A pos \in PointerPtrs :
            (onMouseMove(pos) /\ dragMode = "move") =>
               LET i == selectedAnnotationIndex + 1
                   old == ShownAnns[i]
               IN /\ old.type \in {"text", "image"}
                  /\ annotations' =
                       [annotations EXCEPT ![pageIndexNow + 1][i] =
                          [old EXCEPT
                             !.x = dragStartAnn.x
                                     + (DocPoint(pos).x - dragStartPos.x),
                             !.y = dragStartAnn.y
                                     + (DocPoint(pos).y - dragStartPos.y)]]]_vars

\* The upper image was pressed in the middle of its body and moved to the
\* point right of its corner.
MoveFollowsPointerReached ==
    /\ dragMode = "move" /\ selectedAnnotationIndex = 2
    /\ ~AtRest
    /\ annotations[1][3].x = 500 + (1520 - 1000)
    /\ annotations[1][3].y = 750 + (1250 - 1000)
    /\ annotations[1][3].width = 1000 /\ annotations[1][3].height = 500

----------------------------------------------------------------------------
\* The Delete key in the selecting session (SpecSelect).

\* What is left of everything but the annotation model, the stacks and the
\* selection.
DeleteKeyFrame == UNCHANGED <<docVars, uiVars, gestVars, textVars>>

\* The page deletion the key is routed to: page currentPageNum of the file is
\* removed and the rest is loaded as a new document, unless the user declines.
RoutedToDeletePage(answer) ==
    IF totalPages > 1 /\ pdfDoc.loaded
    THEN IF HasAnnotations /\ ~answer
         THEN UNCHANGED <<docVars, histVars, annotations, selectedAnnotationIndex>>
         ELSE /\ pdfDoc'.pages = SpliceOut(pdfDoc.pages, currentPageNum - 1).rest
              /\ totalPages' = totalPages - 1
              /\ Len(annotations') = totalPages'
              /\ undoStack' = <<>> /\ redoStack' = <<>>
    ELSE UNCHANGED <<docVars, histVars, annotations, selectedAnnotationIndex>>

\* C31: on a Delete key event, if an annotation is selected exactly that index
\* is removed from the list of the current page, one history entry (the model
\* before) is pushed and the selection is cleared; if nothing is selected and
\* the active view is page organization the event is routed to deletePage for
\* the current page, which is refused on a one-page document; otherwise
\* nothing changes.  No history entry is pushed without a change of the model.
DeleteKeyRoutes ==
    [][\A answer \in BOOLEAN :
         onDeleteKeyPressed(answer, "none") =>
           /\ IF selectedAnnotationIndex > -1
              THEN /\ pageIndexNow > -1
                   /\ LET list == annotations[pageIndexNow + 1]
                          i == selectedAnnotationIndex + 1
                      IN /\ i <= Len(list)
                         /\ annotations' =
                              [annotations EXCEPT ![pageIndexNow + 1] =
                                 SubSeq(list, 1, i - 1) \o
                                 SubSeq(list, i + 1, Len(list))]
                   /\ undoStack' = Append(undoStack, annotations)
                   /\ selectedAnnotationIndex' = -1
                   /\ DeleteKeyFrame
              ELSE IF activeTab = "organize"
              THEN RoutedToDeletePage(answer)
              ELSE UNCHANGED <<docVars, uiVars, gestVars, textVars, histVars,
                               annotations, selectedAnnotationIndex>>
           /\ Len(undoStack') > Len(undoStack) => annotations' # annotations]_vars

\* The key has removed the only annotation of a page in the organizing view,
\* and pressed again it is routed to the deletion of the page.
DeleteKeyRoutesReached ==
    /\ activeTab = "organize" /\ totalPages = 2 /\ pdfDoc.loaded
    /\ selectedAnnotationIndex = -1
    /\ pageIndexNow > -1 /\ annotations[pageIndexNow + 1] = <<>>
    /\ undoStack # <<>> /\ redoStack = <<>>
    /\ Len(undoStack[Len(undoStack)][pageIndexNow + 1]) = 1
    /\ ENABLED (SelDeleteKey /\ totalPages' = 1)

----------------------------------------------------------------------------
\* Structural operations that run to their end (SpecDoc).

\* A structural operation that the user let proceed (the answer to confirm()
\* is read only when it is asked) and in which every step succeeded: the page
\* asked for exists in the file, the inserted file is well-formed, the
\* document has more than one page when a page is deleted.
Succeeded ==
    /\ pdfLibDoc.loaded
    /\ pdfLibDoc' # pdfLibDoc /\ pdfDoc' = pdfLibDoc'    \* altered, and reloaded
    /\ \/ \E degrees \in {90, -90}, num \in 1..Len(pdfLibDoc.pages) :
             rotatePage(degrees, num, TRUE, "none")
       \/ \E num \in 1..Len(pdfLibDoc.pages) :
             totalPages > 1 /\ deletePage(num, TRUE, "none")
       \/ \E num \in 1..Len(pdfLibDoc.pages) :
             duplicatePage(num, TRUE, "none")
       \/ \E file \in InsertFiles, insertionIndex \in 0..MaxPages :
             file.valid /\ processAndInsertPdf(file, insertionIndex,
                                               TRUE, "none")

\* C32: after every successful structural page operation (rotate, delete,
\* insert, duplicate) all annotation lists are empty, the undo and redo stacks
\* are empty, there is exactly one annotation list per page of the new
\* document, and the selection is none.
StructuralOperationDiscards ==
    [][Succeeded =>
          /\ pdfDoc'.loaded
          /\ Len(annotations') = Len(pdfDoc'.pages)
          /\ \A p \in 1..Len(annotations') : annotations'[p] = <<>>
          /\ undoStack' = <<>> /\ redoStack' = <<>>
          /\ selectedAnnotationIndex' = -1]_vars

\* A two-page document carries a selected image and a history entry, and a
\* page of it can be rotated, or deleted to leave one page.
StructuralOperationReached ==
    /\ pdfLibDoc.loaded /\ totalPages = 2
    /\ HasAnnotations /\ selectedAnnotationIndex > -1
    /\ undoStack # <<>>
    /\ ENABLED (DocRotate /\ Succeeded)
    /\ ENABLED (DocDelete /\ Succeeded /\ totalPages' = 1)

----------------------------------------------------------------------------
\* The page structure (SpecBusy).

\* C33: whenever a document is loaded, pageOrder is a permutation of
\* 1..totalPages, the annotation model has exactly totalPages lists, every
\* snapshot on the undo and redo stacks has the same number of lists, and
\* currentPageNum is an element of pageOrder.
PageStructureConsistent ==
    pdfDoc.loaded =>
      /\ Len(pageOrder) = totalPages
      /\ \A p \in 1..totalPages : \E i \in 1..Len(pageOrder) : pageOrder[i] = p
      /\ Len(annotations) = totalPages
      /\ \A k \in 1..Len(undoStack) : Len(undoStack[k]) = totalPages
      /\ \A k \in 1..Len(redoStack) : Len(redoStack[k]) = totalPages
      /\ \E i \in 1..Len(pageOrder) : pageOrder[i] = currentPageNum

----------------------------------------------------------------------------
\* SpecPages: a session that organizes pages.  Files are opened, pages are
\* rotated, deleted, duplicated, inserted, dropped at another place and
\* visited, images are placed and their placement undone and redone.  Every
\* handler runs to its end before the next starts and no step of it fails.

PagesRotate ==
    \E degrees \in {90, -90}, num \in 1..MaxPages, answer \in BOOLEAN :
        /\ num <= totalPages /\ (HasAnnotations \/ answer)
        /\ Turned(pdfLibDoc.pages) \subseteq {num}
        /\ rotatePage(degrees, num, answer, "none") /\ GhostKeep

PagesDelete ==
    \E num \in 1..MaxPages, answer \in BOOLEAN :
        /\ pdfDoc.loaded /\ num <= totalPages /\ (HasAnnotations \/ answer)
        /\ deletePage(num, answer, "none") /\ GhostKeep

PagesDuplicate ==
    \E num \in 1..MaxPages, answer \in BOOLEAN :
        /\ num <= totalPages /\ Len(pdfLibDoc.pages) < MaxPages
        /\ (HasAnnotations \/ answer)
        /\ duplicatePage(num, answer, "none") /\ GhostKeep

PagesInsert ==
    \E file \in InsertFiles, insertionIndex \in 0..MaxPages,
       answer \in BOOLEAN :
        /\ pdfDoc.loaded /\ file.valid /\ (HasAnnotations \/ answer)
        /\ insertionIndex <= totalPages /\ Len(pdfLibDoc.pages) < MaxPages
        /\ processAndInsertPdf(file, insertionIndex, answer, "none")
        /\ GhostKeep

PagesDrop ==
    \E dragIndex \in 0..(Len(pageOrder) - 1), dropIndex \in 0..Len(pageOrder) :
        pdfDoc.loaded /\ onDrop(dragIndex, dropIndex) /\ GhostKeep

PagesGoToPage ==
    \E num \in 1..MaxPages : pdfDoc.loaded /\ onPageInput(num) /\ GhostKeep

NextPages ==
    \/ DocOpenFile
    \/ PagesRotate
    \/ PagesDelete
    \/ PagesDuplicate
    \/ PagesInsert
    \/ PagesDrop
    \/ PagesGoToPage
    \/ DocImage
    \/ DocUndo
    \/ DocRedo

SpecPages == Init /\ [][NextPages]_vars

\* The pages in the order the editor shows them: what each entry of pageOrder
\* shows, by the page of the source file it came from.
ShownSources(order, doc) ==
    [i \in 1..Len(order) |->
        IF order[i] \in 1..Len(doc.pages) THEN doc.pages[order[i]].src ELSE -1]

\* Whether a is b with some elements left out.
RECURSIVE IsSubsequence(_, _)
IsSubsequence(a, b) ==
    IF a = <<>> THEN TRUE
    ELSE IF b = <<>> THEN FALSE
    ELSE IF Head(a) = Head(b) THEN IsSubsequence(Tail(a), Tail(b))
    ELSE IsSubsequence(a, Tail(b))

\* C34: a successful structural page operation (rotate, delete, duplicate,
\* insert) preserves the relative order of the surviving pages that earlier
\* reorderPages calls established: the page order shown after the operation
\* is the order shown before it, with the removed pages left out or the added
\* pages put in.
OrderSurvivesOperation ==
    [][Succeeded =>
          LET before == ShownSources(pageOrder, pdfDoc)
              after  == ShownSources(pageOrder', pdfDoc')
          IN IsSubsequence(before, after) \/ IsSubsequence(after, before)]_vars

----------------------------------------------------------------------------
\* SpecGesture: a session that drags and undoes.  It starts where
\* SpecPointer starts, with the select tool; texts and images are pressed,
\* dragged and released, commits are undone and redone, pages are visited.

\* The models the commits of the plan went through.
PlannedModels ==
    {Carried(PointerPlan, k).annotations : k \in 0..Len(PointerPlan)}

\* An annotation is pressed where its commit left it: a document that a
\* drag has changed is left as it is.
GestMouseDown ==
    /\ CanvasPresent /\ annotations \in PlannedModels
    /\ \E pos \in PointerPtrs : onMouseDown(pos)
    /\ GhostKeep

\* The pointer is dragged to the free point or to the right of the images.
GestMouseMove ==
    \E pos \in {[x |-> 300, y |-> 300], [x |-> 2280, y |-> 1875]} :
        CanvasPresent /\ onMouseMove(pos) /\ GhostKeep

NextGesture ==
    \/ GestMouseDown
    \/ GestMouseMove
    \/ PtrMouseUp
    \/ GoToPage
    \/ DocUndo
    \/ DocRedo

SpecGesture == InitPointer /\ [][NextGesture]_vars

Geometry(ann) ==
    [x |-> ann.x, y |-> ann.y, width |-> ann.width, height |-> ann.height]

\* A move or resize gesture is complete and has changed the annotation it
\* was made on: the pointer was pressed on the selected annotation, which was
\* then as dragStartAnn says, moved, and released.
GestureDone ==
    /\ dragMode = "none"
    /\ selectedAnnotationIndex > -1 /\ pageIndexNow > -1
    /\ selectedAnnotationIndex < Len(ShownAnns)
    /\ dragStartAnn.width > 0
    /\ Geometry(SelectedAnn) # dragStartAnn

\* Whether the annotation the gesture was made on is in the model after the
\* step, with the geometry g.
GestureAnnAfter(g) ==
    /\ selectedAnnotationIndex < Len(annotations'[pageIndexNow + 1])
    /\ Geometry(SelectedAnnAfter) = g

\* C35: every change a user gesture makes to the annotation model is
\* undoable: after a completed move or resize gesture that changed an
\* annotation's geometry, one undo restores that annotation's geometry from
\* before the gesture, and a redo does not discard a gesture made after the
\* preceding undo.
GesturesAreUndoable ==
    /\ [][(GestureDone /\ undo) => GestureAnnAfter(dragStartAnn)]_vars
    /\ [][(GestureDone /\ redo) => GestureAnnAfter(Geometry(SelectedAnn))]_vars

----------------------------------------------------------------------------
\* The busy flag and the runs in flight (SpecBusy).

\* C36: whenever a load, an export or a structural operation is in flight the
\* busy flag isSaving is true, also when operations overlap or nest; and once
\* no operation is in flight isSaving is false, on success and on failure
\* alike.
BusyWhileInFlight ==
    /\ running # {} => isSaving
    /\ running = {} => ~isSaving

----------------------------------------------------------------------------
\* The gesture states (SpecPointer).

\* C37: at most one of the gesture states is active at a time: in every
\* reachable state at most one of Dragging (dragMode is not none), Drawing
\* (isDrawing) and TextEditing (isEditingText) holds.
AtMostOneGesture ==
    /\ ~(dragMode # "none" /\ isDrawing)
    /\ ~(dragMode # "none" /\ isEditingText)
    /\ ~(isDrawing /\ isEditingText)


----------------------------------------------------------------------------
\* The lists of the other pages (SpecFrame).  A two-page file is opened
\* once; texts are placed with the text tool, images from the file picker,
\* strokes with the draw tool; annotations are grabbed, moved, resized,
\* restyled and deleted on either page.

FramePtrs ==
    {[x |-> 300, y |-> 300], [x |-> 1500, y |-> 1500],
     [x |-> 2250, y |-> 1875]}

\* The style change made in the session: the size of the text.
FrameSettings == {<<"size", 24>>}

\* A text or an image is grabbed where it was placed.
FramePlaced ==
    \A p \in 1..Len(annotations) : \A i \in 1..Len(annotations[p]) :
        LET ann == annotations[p][i] IN
        \/ ann.type = "draw"
        \/ ann.type = "text" /\ ann.x = ToDoc(300) /\ ann.y = ToDoc(300)
        \/ /\ ann.type = "image"
           /\ \E img \in Images : /\ ann.x = ImageAnn(img).x
                                  /\ ann.y = ImageAnn(img).y
                                  /\ ann.width = ImageAnn(img).width

\* A text is placed and a stroke begun at the first of the points.
FrameMouseDown ==
    \E pos \in FramePtrs :
        /\ CanvasPresent /\ FramePlaced
        /\ activeTool # "select" => pos = [x |-> 300, y |-> 300]
        /\ onMouseDown(pos) /\ GhostKeep

\* A stroke is drawn through one point.
FrameMouseMove ==
    \E pos \in FramePtrs :
        /\ CanvasPresent
        /\ isDrawing => pos = [x |-> 1500, y |-> 1500]
        /\ onMouseMove(pos) /\ GhostKeep

FrameMouseUp ==
    /\ CanvasPresent
    /\ (isDrawing /\ Len(currentDrawingPath) > 1) => SelHistRoom
    /\ onMouseUp /\ GhostKeep

FrameDeleteKey ==
    /\ selectedAnnotationIndex > -1 /\ SelHistRoom
    /\ onDeleteKeyPressed(TRUE, "none") /\ GhostKeep

FrameUpdateTextSetting ==
    \E s \in FrameSettings :
        pdfDoc.loaded /\ updateTextSetting(s[1], s[2]) /\ GhostKeep

NextFrame ==
    \/ ResOpenFile
    \/ PtrSelectTool
    \/ FrameMouseDown
    \/ FrameMouseMove
    \/ FrameMouseUp
    \/ SelTextInput
    \/ SelFinalizeText
    \/ SelImageSelected
    \/ FrameDeleteKey
    \/ FrameUpdateTextSetting
    \/ GoToPage

SpecFrame == Init /\ [][NextFrame]_vars

\* A call of one of the operations that change annotations, which changed
\* them.
Mutates ==
    /\ annotations' # annotations
    /\ \/ \E img \in Images : onImageSelected(img)
       \/ onMouseUp
       \/ finalizeTextAnnotation
       \/ selectedAnnotationIndex > -1 /\ onDeleteKeyPressed(TRUE, "none")
       \/ \E pos \in FramePtrs : onMouseMove(pos)
       \/ \E s \in FrameSettings : updateTextSetting(s[1], s[2])

\* C38: an operation that changes annotations (an annotation added, the
\* selected one deleted, a text edit committed, a move, a resize, a change of
\* text style) leaves as many lists as there were and changes the list of no
\* page but the current one, from the first of them after the load onward.
OtherPagesUnchanged ==
    [][Mutates =>
         /\ Len(annotations') = Len(annotations)
         /\ \A p \in 1..Len(annotations) :
               p # pageIndexNow + 1 => annotations'[p] = annotations[p]]_vars

\* The second page is shown, both pages carry annotations, those of the two
\* pages differ, and a text of the second page is held by the pointer: it
\* can be moved and restyled.
OtherPagesReached ==
    /\ pdfDoc.loaded /\ currentPageNum = 2 /\ pageIndexNow = 1
    /\ annotations[1] # <<>> /\ annotations[2] # <<>>
    /\ annotations[1] # annotations[2]
    /\ selectedAnnotationIndex > -1 /\ dragMode = "move"
    /\ annotations[2][selectedAnnotationIndex + 1].type = "text"
    /\ ENABLED (FrameMouseMove /\ annotations' # annotations)
    /\ ENABLED (FrameUpdateTextSetting /\ annotations' # annotations)


----------------------------------------------------------------------------
\* Page numbers (SpecNumber).  A document of 1..MaxOrderPages pages whose
\* pages are reordered, shown and exported with page-number settings.  The
\* panel is closed, so the preview reads pageNumberSettings() as savePdf
\* does.

\* The preview that numbers a page by its page number.
pageNumTextByPageNumber(settings) ==
    IF settings.visible /\ pageIndexNow # -1
    THEN <<currentPageNum - 1 + settings.startPage>>
    ELSE <<>>

\* What drawAnnotations writes as the page number of the page shown: <<>>
\* when it writes none.
pageNumText(settings) ==
    IF settings.visible /\ pageIndexNow # -1
    THEN <<pageIndexNow + settings.startPage>>
    ELSE <<>>

StartPages == {0, 1, 5}
NumberInputs == {[visible |-> v, startPage |-> s] : v \in BOOLEAN,
                                                     s \in StartPages}
NoWatermark == [visible |-> FALSE, text |-> <<>>]

\* The session ends with its export.
NumberDrop == Editing /\ OrderDrop

NumberGoToPage == Editing /\ OrderGoToPage

NumberSave ==
    \E settings \in NumberInputs :
        /\ Editing
        /\ savePdf(<<>>, settings, NoWatermark, TRUE, TRUE)
        /\ UNCHANGED <<gLog, gPhase, gUndos, gRedos, running>>

NextNumber ==
    \/ NumberDrop
    \/ NumberGoToPage
    \/ NumberSave

SpecNumber == InitReorder /\ [][NextNumber]_vars

\* The page numbers among the operations of an exported page.
PageNumbersOf(page) ==
    SelectSeq(page.ops, LAMBDA op : op.kind = "pageNumber")

\* C39: an export with page numbers writes on the page at position i of the
\* page order (from zero) the number i + startPage, once; the preview of the
\* page shown, which is the exported page at its position in the order,
\* writes the same number; and with page numbers off neither writes one.
PageNumbersAgree ==
    [][\A settings \in NumberInputs :
          savePdf(<<>>, settings, NoWatermark, TRUE, TRUE) =>
            /\ download' # <<>>
            /\ Len(download'[1].pages) = Len(pageOrder)
            /\ \A i \in 1..Len(pageOrder) :
                  LET numbers == PageNumbersOf(download'[1].pages[i]) IN
                  IF settings.visible
                  THEN /\ Len(numbers) = 1
                       /\ numbers[1].text = (i - 1) + settings.startPage
                  ELSE numbers = <<>>
            /\ pageIndexNow # -1
            /\ LET shown == download'[1].pages[pageIndexNow + 1] IN
               /\ shown.page = pdfDoc.pages[currentPageNum]
               /\ pageNumText(settings) =
                    [k \in 1..Len(PageNumbersOf(shown)) |->
                        PageNumbersOf(shown)[k].text]]_vars

\* A document of three pages or more was exported in its present order, which
\* is not the order of the file, with numbers from 5 on; the page shown is
\* neither first in the order nor at the position of its page number.
PageNumbersReached ==
    /\ download # <<>> /\ Len(pageOrder) >= 3
    /\ Len(download[1].pages) = Len(pageOrder)
    /\ \A i \in 1..Len(pageOrder) :
          download[1].pages[i].page = pdfLibDoc.pages[pageOrder[i]]
    /\ PageNumbersOf(download[1].pages[1]) # <<>>
    /\ PageNumbersOf(download[1].pages[1])[1].text = 5
    /\ pageIndexNow > 0 /\ pageIndexNow # currentPageNum - 1
    /\ PageNumbersOf(download[1].pages[pageIndexNow + 1])[1].text
          = pageIndexNow + 5


----------------------------------------------------------------------------
\* Fonts of an export (SpecFont).  A document with a text on each page; a
\* text is selected, given a font of availableFonts and made bold or not;
\* the document is exported.

availableFonts ==
    <<[id |-> "Helvetica", name |-> "Arial"],
      [id |-> "Helvetica-Bold", name |-> "Arial Bold"],
      [id |-> "Times-Roman", name |-> "Times New Roman"],
      [id |-> "Courier", name |-> "Courier"]>>

AvailableFontIds == {availableFonts[k].id : k \in 1..Len(availableFonts)}

\* The names PDFDocument.embedFont takes for a standard font (the values of
\* StandardFonts); any other string is read as the bytes of a font file,
\* which needs a fontkit the component never registers, so the call rejects.
StandardFonts ==
    {"Courier", "Courier-Bold", "Courier-Oblique", "Courier-BoldOblique",
     "Helvetica", "Helvetica-Bold", "Helvetica-Oblique",
     "Helvetica-BoldOblique", "Times-Roman", "Times-Bold", "Times-Italic",
     "Times-BoldItalic", "Symbol", "ZapfDingbats"}

\* String.prototype.includes and String.prototype.replace (the first
\* occurrence of a string pattern).
Occurrences(s, sub) ==
    {i \in 1..(Len(s) - Len(sub) + 1) : SubSeq(s, i, i + Len(sub) - 1) = sub}

Includes(s, sub) == Occurrences(s, sub) # {}

Replace(s, sub, by) ==
    IF Includes(s, sub)
    THEN LET i == CHOOSE j \in Occurrences(s, sub) :
                     \A k \in Occurrences(s, sub) : j <= k
         IN SubSeq(s, 1, i - 1) \o by \o SubSeq(s, i + Len(sub), Len(s))
    ELSE s

\* const fontId of the text branch of savePdf.
fontIdOf(ann) ==
    IF ann.bold
    THEN (IF Includes(ann.font, "Bold") THEN ann.font
          ELSE ann.font \o "-Bold")
    ELSE Replace(ann.font, "-Bold", "")

\* The font ids savePdf passes to getFont, in the order of its calls: for the
\* page numbers, for the watermark, and for each text of annotations()[i],
\* i over the pages of the new document.
RECURSIVE TextFontIds(_, _)
TextFontIds(pageAnns, k) ==
    IF k > Len(pageAnns) THEN <<>>
    ELSE (IF pageAnns[k].type = "text" THEN <<fontIdOf(pageAnns[k])>>
          ELSE <<>>) \o TextFontIds(pageAnns, k + 1)

RECURSIVE PagesFontIds(_)
PagesFontIds(i) ==
    IF i > Len(pageOrder) THEN <<>>
    ELSE (IF i <= Len(annotations) THEN TextFontIds(annotations[i], 1)
          ELSE <<>>) \o PagesFontIds(i + 1)

FontRequests(settings, watermark) ==
    (IF settings.visible THEN <<"Helvetica">> ELSE <<>>)
    \o (IF watermark.visible /\ watermark.text # <<>>
        THEN <<watermark.font>> ELSE <<>>)
    \o PagesFontIds(1)

\* getFont over the requests from the k-th on: calls is the sequence of ids
\* newPdfDoc.embedFont has been called with.  An id that is in fontCache is
\* not embedded again; a call that rejects ends savePdf in its catch.
RECURSIVE getFont(_, _, _)
getFont(requests, k, calls) ==
    IF k > Len(requests) THEN calls
    ELSE LET fontId == requests[k]
             fontCache == {calls[c] : c \in 1..Len(calls)}
         IN IF fontId \in fontCache THEN getFont(requests, k + 1, calls)
            ELSE IF fontId \in StandardFonts
            THEN getFont(requests, k + 1, Append(calls, fontId))
            ELSE Append(calls, fontId)

EmbedCalls(settings, watermark) ==
    getFont(FontRequests(settings, watermark), 1, <<>>)

\* Every call of embedFont resolved.
FontsEmbed(settings, watermark) ==
    \A c \in 1..Len(EmbedCalls(settings, watermark)) :
        EmbedCalls(settings, watermark)[c] \in StandardFonts

FontWatermarks ==
    {[visible |-> v, text |-> <<"w">>, font |-> "Helvetica-Bold"] :
        v \in BOOLEAN}

FontPtrs == {[x |-> 150, y |-> 150]}

FontMouseDown ==
    \E pos \in FontPtrs :
        Editing /\ CanvasPresent /\ onMouseDown(pos) /\ GhostKeep

FontMouseUp == Editing /\ PtrMouseUp

FontGoToPage == Editing /\ GoToPage

FontUpdateTextSetting ==
    /\ Editing /\ pdfDoc.loaded
    /\ \/ \E font \in AvailableFontIds : updateTextSetting("font", font)
       \/ \E bold \in BOOLEAN : updateTextSetting("bold", bold)
    /\ GhostKeep

FontSave ==
    \E settings \in PageNumberInputs, watermark \in FontWatermarks :
        /\ Editing
        /\ savePdf(<<>>, settings, watermark, TRUE,
                   FontsEmbed(settings, watermark))
        /\ UNCHANGED <<gLog, gPhase, gUndos, gRedos, running>>

NextFont ==
    \/ FontMouseDown
    \/ FontMouseUp
    \/ FontGoToPage
    \/ FontUpdateTextSetting
    \/ FontSave

SpecFont == InitPointer /\ [][NextFont]_vars

\* The texts of the document.
TextsOfDocument ==
    UNION {{annotations[p][k] :
               k \in {j \in 1..Len(annotations[p]) :
                         annotations[p][j].type = "text"}} :
           p \in 1..Len(annotations)}

NoRepeat(s) == \A a, b \in 1..Len(s) : a # b => s[a] # s[b]

\* C40: for every text of the document whose font is one of availableFonts,
\* bold or not, the font id an export resolves is a standard font that can be
\* embedded, and an export of the document passes no id to embedFont twice.
FontsResolveAndEmbedOnce ==
    /\ \A ann \in TextsOfDocument :
          ann.font \in AvailableFontIds => fontIdOf(ann) \in StandardFonts
    /\ \A settings \in PageNumberInputs, watermark \in FontWatermarks :
          NoRepeat(EmbedCalls(settings, watermark))

============================================================================
